---- MODULE Spec2Model ----
(***************************************************************************)
(* Model of the client-side component runtime of booqable/small-theme:     *)
(*   - the frame scheduler        (src/src/js/utils.js, frameSequence)     *)
(*   - the cleanup registry       (src/src/js/utils.js, cleanupSystem)     *)
(*   - the carousel state machine (src/src/js/carousel.js)                 *)
(* Each subsystem has its own specification (SpecSched, SpecRegistry,      *)
(* SpecWidgets, SpecCarousel); the variables of the other subsystems stay  *)
(* at their idle values.                                                   *)
(***************************************************************************)
EXTENDS Integers, Sequences, FiniteSets, TLC

\* ------------------------------------------------------------------------
\* Bounds of the model
\* ------------------------------------------------------------------------
\* frameSequence calls submitted in one run
MaxCalls == 3
\* animation frames the host paints in one run
MaxFrames == 4
\* register() calls in one run of the registry specification
MaxRegisterCalls == 3
\* slide-track engines one carousel instance constructs in one run
MaxMounts == 3
\* IntersectionObserver objects one handle constructs in one run
MaxWatchers == 3
\* resize notifications one handle receives in one run
MaxNotifications == 3
\* entries one intersection callback carries
MaxEntries == 3
\* positions the focal-point cache holds in one run
MaxCached == 2
\* scroll and resize events the top bar receives in one run
MaxBarEvents == 3
\* user events the search overlay receives in one run
MaxSearchEvents == 2
\* .carousel elements of one page
MaxCarousels == 2
\* the time, in ms, after which the breakpoint watcher sees no new event
MaxTime == 600
\* events an engine emits to the dot indicators
MaxDotEvents == 3
\* resizes of the header
MaxHeaderEvents == 2
\* events an engine emits to the buttons
MaxButtonEvents == 3
\* times one write callback is applied with the same snapshot
MaxWrites == 2

\* ------------------------------------------------------------------------
\* State
\* ------------------------------------------------------------------------
VARIABLES
  \* --- scheduler -------------------------------------------------------
  rafQueue,        \* callbacks handed to requestAnimationFrame, for the next frame
  frameCallbacks,  \* callbacks of the frame being painted, not yet run
  inFrame,         \* TRUE while the host runs a frame's callbacks
  frameNo,         \* number of frames begun so far
  clock,           \* number of frame callbacks run so far (execution order)
  calls            \* history of every frameSequence call, by call id
  ,
  \* --- cleanup registry ------------------------------------------------
  registries,      \* cleanupFunctions Map of every cleanupSystem() instance
  themeCleanup,    \* window.themeCleanup: NoHook, or the functions it calls in order
  windowCleanup,   \* window[`cleanup${name}`], by name
  throws,          \* the teardown functions that throw when called
  regHistory,      \* per registry and name: functions registered since the entry began
  hookRegs,        \* functions registered while window.themeCleanup existed, in order
  registerCalls,   \* number of register() calls so far
  lastOp           \* the last registry operation and what it invoked
  ,
  \* --- carousel (one CarouselInstance and its page) ----------------------
  markup,          \* what the template rendered: slides, data-timer, data-pause, controls
  viewportDesktop, \* whether (min-width: 992px) matches now
  pointerInside,   \* whether the pointer is over the carousel element now
  started,         \* instance.init() has run
  mediaQuery,      \* CarouselInstance.mediaQuery: Null or the MediaQueryList
  mqListener,      \* the 'change' listener is attached to the MediaQueryList
  debounceTimer,   \* the timeout of debounce(debounceHandler, 250) is pending
  initialized,     \* CarouselInstance.initialized
  embla,           \* CarouselInstance.embla: 0 for null, or n for the engine of the n-th mount
  selected,        \* the engine's selected scroll snap
  autoplay,        \* CarouselInstance.autoplay: NoAutoplay or [active, interval]
  isHovering,      \* CarouselProcessor.isHovering
  visibilityObserver, \* CarouselInstance.visibilityObserver: Null or the watching handle
  eventListeners,  \* CarouselEvents.eventListeners, the tracked subscriptions
  domListeners,    \* the listeners attached to the carousel, its buttons and dots
  attached,        \* DOM listeners attached since the instance was created
  removed,         \* DOM listeners removed since the instance was created
  mounts,          \* engines constructed since the instance was created
  mountLog,        \* the viewport states (desktop or not) engines were constructed at
  permStopped,     \* autoplayStopPermanently() has been called on this carousel
  host,            \* what the browser and the engines hold for this instance
  lastEvent        \* the handler that ran last
  ,
  \* --- visibility observer (one intersectionObserver handle) -----------
  ioCallback,      \* the callback the handle was constructed with
  ioConfig,        \* config: the defaults overridden by the options
  ioObserver,      \* observer: 0 for null, or the index of the watcher held
  ioWatchers,      \* every IntersectionObserver constructed, with what it watches
  ioLast           \* the last call on the handle, or the last callback delivered
  ,
  \* --- resize observer (one resizeObserver handle) ----------------------
  roConfig,        \* config: debounceTime and width
  innerWidth,      \* window.innerWidth
  lastWidth,       \* lastWidth
  roObserver,      \* observer: whether the handle holds a ResizeObserver
  roTimeout,       \* the data of the pending debounce timeout, or NoTimeout
  roFrames,        \* the data of the callbacks queued by nextFrame
  roLog,           \* window.innerWidth at every notification, in order
  roDelivered,     \* the data the consumer callback was called with, in order
  roWidth0         \* window.innerWidth at construction
  ,
  \* --- lazy image loader (one imageComponent and its page) --------------
  images,          \* every image: classes, complete, 'load' listeners, history
  imgHandle,       \* the intersectionObserver handle of imageObserver
  imgStarted,      \* imageComponent.init() has run
  imgLast          \* the event handled last
  ,
  \* --- focal-point cropper (one FocalCalculator and its FocalDOM) -------
  focalCache,      \* FocalDOM.cache: the position cached under every key
  focalLast        \* the last calculatePosition call and what it returned
  ,
  \* --- sticky top bar (one topBarComponent and its page) -----------------
  barMarkup,       \* what the template rendered: .top-bar, .header__inner, the bar's height
  scrollY,         \* window.scrollY
  docScrolled,     \* the document element carries the scroll modifier 'scrolled'
  barCache,        \* TopBarDOM.cache
  barCssVar,       \* --top-bar-height on the document element, in px
  barQueue,        \* callbacks handed to nextFrame, for the next frame
  barRunning,      \* callbacks of the frame being painted, not yet run
  barListeners,    \* the window events topBarEvents listens to
  barStarted,      \* topBarComponent.init() has run
  barEvents,       \* scroll and resize events so far
  barLast,         \* the callback that ran last, with its data
  barDeepest       \* the greatest position recorded since the bar was hidden, 0 while shown
  ,
  \* --- search overlay (one searchComponent and its page) -----------------
  srMarkup,        \* what the template rendered of the search overlay
  srQuery,         \* the parameter q of window.location.href
  srValue,         \* input.value
  srFilled,        \* the input's parent carries the class 'filled'
  srFocused,       \* input.focus() has been called
  srElements,      \* SearchDOM.elements holds the elements (not cleared)
  srQueue,         \* callbacks handed to nextFrame, for the next frame
  srRunning,       \* callbacks of the frame being painted, not yet run
  srTimers,        \* pending focus delays (setTimeout of focusInput)
  srListening,     \* the document listeners of searchEvents are attached
  srStarted,       \* searchComponent.init() has run
  srDestroyed,     \* searchComponent.destroy() has run
  srUserEvents,    \* user events so far
  srLocation,      \* "page", or the query the page navigated to
  srLast           \* the step that ran last
  ,
  \* --- widget initialization (one page and its widget modules) -----------
  pgMarkup,        \* what the template rendered for every widget
  pgInited,        \* the widget modules that have run their init<Widget>()
  pgAttached,      \* listeners, observers, watchers and frames attached: <<widget, carousel, kind>>
  pgInstances,     \* the carousels whose teardown CarouselComponent.instances holds
  pgRegistered     \* per widget module: the names it registered, in order
  ,
  \* --- breakpoint watcher of a carousel, with time -----------------------
  bpSlides,        \* the number of .carousel__slide elements
  bpDesktop,       \* whether (min-width: 992px) matches now
  bpNow,           \* the time since instance.init(), in ms
  bpTimeouts,      \* the deadlines of the pending timeouts of handleMediaQuery
  bpMounted,       \* CarouselInstance.initialized
  bpChanges,       \* the times of the 'change' events, in order
  bpEvaluations    \* the evaluations: time, events before, viewport, outcome
  ,
  \* --- focal images (one focalComponent and one element) -----------------
  fiImage,         \* the element: its data attributes, object-position, opacity, writes applied
  fiCache,         \* FocalDOM.cache
  fiObserver,      \* focalObserver holds its intersectionObserver handle, initialized
  fiObserved,      \* the watcher watches the element
  fiQueue,         \* callbacks handed to nextFrame, for the next frame
  fiRunning,       \* callbacks of the frame being painted, not yet run
  fiStarted,       \* focalComponent.init() has run
  fiLast           \* the step that ran last
  ,
  \* --- dot indicators of one carousel ------------------------------------
  dtMarkup,        \* what the template rendered: slides, dots, first dot marked
  dtMounted,       \* initCarousel has run
  dtSelected,      \* embla.selectedScrollSnap()
  dtClass,         \* the dots that carry carousel__dot--selected
  dtCurrent,       \* the dots that carry aria-current="true"
  dtQueue,         \* callbacks handed to nextFrame, for the next frame
  dtRunning,       \* callbacks of the frame being painted, not yet run
  dtEvents,        \* engine events emitted so far
  dtLast,          \* the step that ran last, with the index it carried
  dtPending        \* log: the most dot updates that were pending at once
  ,
  \* --- header height (one headerComponent) -------------------------------
  hdHeight,        \* the height of the .header element
  hdPreview,       \* the height of the preview bar, 0 without one
  hdElements,      \* the keys of HeaderDOM's elements
  hdCache,         \* HeaderDOM's cache
  hdCssVars,       \* --header-height and --preview-height on the document element
  hdObserver,      \* the resize observer handle watches
  hdQueue,         \* callbacks handed to nextFrame, for the next frame
  hdRunning,       \* callbacks of the frame being painted, not yet run
  hdStarted,       \* headerComponent.init() has run
  hdDestroyed,     \* headerComponent.destroy() has run
  hdEvents,        \* resizes of the header so far
  hdAtTeardown,    \* the custom properties as they were when destroy() ran
  hdLast           \* the step that ran last
  ,
  \* --- prev/next buttons of one carousel ---------------------------------
  btModule,        \* which module mounted the carousel
  btMounted,       \* initCarousel has run
  btCan,           \* embla.canScrollPrev() and embla.canScrollNext()
  btDisabled,      \* the buttons that carry the disabled class and attribute
  btQueue,         \* callbacks handed to nextFrame, for the next frame
  btRunning,       \* callbacks of the frame being painted, not yet run
  btEvents,        \* engine events emitted so far
  btLast           \* the step that ran last, with the data it carried
  ,
  \* --- write callbacks applied again -------------------------------------
  wrWidget,        \* the widget whose write callback is applied
  wrBefore,        \* the DOM and cache values before the first application
  wrData,          \* the snapshot a read produced and the elements the write sees
  wrState,         \* the DOM and cache values now
  wrCount          \* applications of the write so far

schedVars == <<rafQueue, frameCallbacks, inFrame, frameNo, clock, calls>>
regVars == <<registries, themeCleanup, windowCleanup, throws, regHistory, hookRegs,
             registerCalls, lastOp>>

carVars == <<markup, viewportDesktop, pointerInside, started, mediaQuery, mqListener,
             debounceTimer, initialized, embla, selected, autoplay, isHovering,
             visibilityObserver, eventListeners, domListeners, attached, removed,
             mounts, mountLog, permStopped, host, lastEvent>>

obsVars == <<ioCallback, ioConfig, ioObserver, ioWatchers, ioLast>>

resVars == <<roConfig, innerWidth, lastWidth, roObserver, roTimeout, roFrames, roLog,
             roDelivered, roWidth0>>

imgVars == <<images, imgHandle, imgStarted, imgLast>>

focVars == <<focalCache, focalLast>>

barVars == <<barMarkup, scrollY, docScrolled, barCache, barCssVar, barQueue, barRunning,
             barListeners, barStarted, barEvents, barLast,
             barDeepest>>

searchVars == <<srMarkup, srQuery, srValue, srFilled, srFocused, srElements, srQueue,
                srRunning, srTimers, srListening, srStarted, srDestroyed, srUserEvents,
                srLocation, srLast>>

pageVars == <<pgMarkup, pgInited, pgAttached, pgInstances, pgRegistered>>

bpVars == <<bpSlides, bpDesktop, bpNow, bpTimeouts, bpMounted, bpChanges,
            bpEvaluations>>

fiVars == <<fiImage, fiCache, fiObserver, fiObserved, fiQueue, fiRunning, fiStarted,
            fiLast>>

dtVars == <<dtMarkup, dtMounted, dtSelected, dtClass, dtCurrent, dtQueue, dtRunning,
            dtEvents, dtLast, dtPending>>

hdVars == <<hdHeight, hdPreview, hdElements, hdCache, hdCssVars, hdObserver, hdQueue,
            hdRunning, hdStarted, hdDestroyed, hdEvents, hdAtTeardown, hdLast>>

btVars == <<btModule, btMounted, btCan, btDisabled, btQueue, btRunning, btEvents,
            btLast>>

wrVars == <<wrWidget, wrBefore, wrData, wrState, wrCount>>

vars == <<schedVars, regVars, carVars, obsVars, resVars, imgVars, focVars, barVars,
  searchVars, pageVars, bpVars, fiVars, dtVars, hdVars, btVars, wrVars>>

\* the elements of a sequence
Range(seq) == {seq[i] : i \in DOMAIN seq}

\* getAttribute() of an attribute the element does not have: null
NoAttribute == <<"null">>

\* the characters of a decimal digit string and what they stand for
DigitChars == <<"0", "1", "2", "3", "4", "5", "6", "7", "8", "9">>
Digits == {DigitChars[n] : n \in 1..10}
digitValue == [c \in Digits |-> (CHOOSE n \in 1..10 : DigitChars[n] = c) - 1]
digit(c) == digitValue[c]

RECURSIVE takeDigits(_)
takeDigits(s) ==
  IF s = <<>> \/ Head(s) \notin Digits THEN <<>>
  ELSE <<Head(s)>> \o takeDigits(Tail(s))

RECURSIVE toNumber(_)
toNumber(ds) ==
  IF ds = <<>> THEN 0
  ELSE toNumber(SubSeq(ds, 1, Len(ds) - 1)) * 10 + digit(ds[Len(ds)])

\* what the actions of one subsystem leave alone
notSched == <<regVars, carVars, obsVars, resVars, imgVars, focVars, barVars, searchVars,
  pageVars, bpVars, fiVars, dtVars, hdVars, btVars, wrVars>>
notRegistry == <<schedVars, carVars, obsVars, resVars, imgVars, focVars, barVars,
  searchVars, pageVars, bpVars, fiVars, dtVars, hdVars, btVars, wrVars>>
notCarousel == <<schedVars, regVars, obsVars, resVars, imgVars, focVars, barVars,
  searchVars, pageVars, bpVars, fiVars, dtVars, hdVars, btVars, wrVars>>
notObserver == <<schedVars, regVars, carVars, resVars, imgVars, focVars, barVars,
  searchVars, pageVars, bpVars, fiVars, dtVars, hdVars, btVars, wrVars>>
notResize == <<schedVars, regVars, carVars, obsVars, imgVars, focVars, barVars,
  searchVars, pageVars, bpVars, fiVars, dtVars, hdVars, btVars, wrVars>>
notImages == <<schedVars, regVars, carVars, obsVars, resVars, focVars, barVars,
  searchVars, pageVars, bpVars, fiVars, dtVars, hdVars, btVars, wrVars>>
notFocal == <<schedVars, regVars, carVars, obsVars, resVars, imgVars, barVars,
  searchVars, pageVars, bpVars, fiVars, dtVars, hdVars, btVars, wrVars>>
notBar == <<schedVars, regVars, carVars, obsVars, resVars, imgVars, focVars, searchVars,
  pageVars, bpVars, fiVars, dtVars, hdVars, btVars, wrVars>>
notSearch == <<schedVars, regVars, carVars, obsVars, resVars, imgVars, focVars, barVars,
  pageVars, bpVars, fiVars, dtVars, hdVars, btVars, wrVars>>
notPage == <<schedVars, regVars, carVars, obsVars, resVars, imgVars, focVars, barVars,
  searchVars, bpVars, fiVars, dtVars, hdVars, btVars, wrVars>>
notBreakpoint == <<schedVars, regVars, carVars, obsVars, resVars, imgVars, focVars,
  barVars, searchVars, pageVars, fiVars, dtVars, hdVars, btVars, wrVars>>
notFocalImages == <<schedVars, regVars, carVars, obsVars, resVars, imgVars, focVars,
  barVars, searchVars, pageVars, bpVars, dtVars, hdVars, btVars, wrVars>>
notDots == <<schedVars, regVars, carVars, obsVars, resVars, imgVars, focVars, barVars,
  searchVars, pageVars, bpVars, fiVars, hdVars, btVars, wrVars>>
notHeader == <<schedVars, regVars, carVars, obsVars, resVars, imgVars, focVars, barVars,
  searchVars, pageVars, bpVars, fiVars, dtVars, btVars, wrVars>>
notButtons == <<schedVars, regVars, carVars, obsVars, resVars, imgVars, focVars,
  barVars, searchVars, pageVars, bpVars, fiVars, dtVars, hdVars, wrVars>>
notWrites == <<schedVars, regVars, carVars, obsVars, resVars, imgVars, focVars, barVars,
  searchVars, pageVars, bpVars, fiVars, dtVars, hdVars, btVars>>

\* ------------------------------------------------------------------------
\* Scheduler: nextFrame / frameSequence (utils.js 22-33)
\* ------------------------------------------------------------------------
\* what a read callback may return: a snapshot of the DOM at that moment
Snapshots == {"snapA", "snapB"}
\* what a callback receives when the captured data is not passed on
NoData == "undefined"

CallIds == 1..MaxCalls

NoCall == [submitted |-> FALSE, submitFrame |-> 0,
           readCount |-> 0, readFrame |-> 0, readAt |-> 0, readVal |-> NoData,
           writeCount |-> 0, writeFrame |-> 0, writeAt |-> 0, writeArg |-> NoData]

\* nextFrame(callback): requestAnimationFrame queues the callback for the next
\* frame, after the callbacks already queued
nextFrame(q, callback) == Append(q, callback)

\* the outer closure of frameSequence: () => { data = read(); nextFrame(...) }
readClosure(id) == [kind |-> "read", id |-> id, data |-> NoData]

writeClosureDropsData(id, data) == [kind |-> "write", id |-> id, data |-> NoData]

\* the inner closure of frameSequence: () => writeCallback(data)
writeClosure(id, data) == [kind |-> "write", id |-> id, data |-> data]

\* frameSequence(readCallback, writeCallback): defers the read closure
frameSequence(q, id) == nextFrame(q, readClosure(id))

readThenWriteSameFrame(q, running, id, data) ==
  [queue |-> q, running |-> <<writeClosure(id, data)>> \o running]

\* body of the read closure once data = readCallback() is known: the write
\* closure is deferred to the following frame; the running frame is untouched
readClosureBody(q, running, id, data) ==
  [queue |-> nextFrame(q, writeClosure(id, data)), running |-> running]

InitSched ==
  /\ rafQueue = <<>>
  /\ frameCallbacks = <<>>
  /\ inFrame = FALSE
  /\ frameNo = 0
  /\ clock = 0
  /\ calls = [i \in CallIds |-> NoCall]

\* a widget calls frameSequence(read, write); it may do so from an event
\* handler between frames or from a callback of the running frame
SubmitFrameSequence ==
  \E id \in CallIds :
    /\ UNCHANGED notSched
    /\ ~calls[id].submitted
    /\ \A j \in CallIds : j < id => calls[j].submitted
    /\ rafQueue' = frameSequence(rafQueue, id)
    /\ calls' = [calls EXCEPT ![id].submitted = TRUE, ![id].submitFrame = frameNo]
    /\ UNCHANGED <<frameCallbacks, inFrame, frameNo, clock>>

\* the host begins a frame: it runs the callbacks queued so far; callbacks
\* queued while the frame runs wait for the next frame
BeginFrame ==
  /\ UNCHANGED notSched
  /\ ~inFrame
  /\ frameNo < MaxFrames
  /\ frameCallbacks' = rafQueue
  /\ rafQueue' = <<>>
  /\ inFrame' = TRUE
  /\ frameNo' = frameNo + 1
  /\ UNCHANGED <<clock, calls>>

\* the host runs the read closure of a call: data = readCallback()
RunReadClosure ==
  /\ UNCHANGED notSched
  /\ inFrame
  /\ frameCallbacks # <<>>
  /\ Head(frameCallbacks).kind = "read"
  /\ \E data \in Snapshots :
       LET id == Head(frameCallbacks).id
           after == readClosureBody(rafQueue, Tail(frameCallbacks), id, data)
       IN /\ rafQueue' = after.queue
          /\ frameCallbacks' = after.running
          /\ calls' = [calls EXCEPT ![id].readCount = @ + 1,
                                    ![id].readFrame = frameNo,
                                    ![id].readAt = clock + 1,
                                    ![id].readVal = data]
  /\ clock' = clock + 1
  /\ UNCHANGED <<inFrame, frameNo>>

\* the host runs the write closure of a call: writeCallback(data)
RunWriteClosure ==
  /\ UNCHANGED notSched
  /\ inFrame
  /\ frameCallbacks # <<>>
  /\ Head(frameCallbacks).kind = "write"
  /\ LET cb == Head(frameCallbacks)
     IN calls' = [calls EXCEPT ![cb.id].writeCount = @ + 1,
                               ![cb.id].writeFrame = frameNo,
                               ![cb.id].writeAt = clock + 1,
                               ![cb.id].writeArg = cb.data]
  /\ frameCallbacks' = Tail(frameCallbacks)
  /\ clock' = clock + 1
  /\ UNCHANGED <<rafQueue, inFrame, frameNo>>

\* the frame's callbacks have all run
EndFrame ==
  /\ UNCHANGED notSched
  /\ inFrame
  /\ frameCallbacks = <<>>
  /\ inFrame' = FALSE
  /\ UNCHANGED <<rafQueue, frameCallbacks, frameNo, clock, calls>>

NextSched ==
  \/ SubmitFrameSequence
  \/ BeginFrame
  \/ RunReadClosure
  \/ RunWriteClosure
  \/ EndFrame

\* ------------------------------------------------------------------------
\* Cleanup registry: cleanupSystem (utils.js 170-219)
\* ------------------------------------------------------------------------
\* window.themeCleanup is not defined
NoHook == "undefined"
\* no function under this key
NoFn == "undefined"
\* a value that is not a function, handed to register()
NotAFunction == "notAFunction"
\* the body of the page-teardown hook the host page defined itself
HostHook == "hostHook"

\* names and teardown functions used by direct callers of the registry API
RegNames == {"A", "B"}
TeardownFns == {"f", "g"}

\* the names the widget modules register, each with its component's teardown
\* closure (named after the entry here):
\* carousel.js 443, image-loading.js 256, focal-image.js 211, top-bar.js 245,
\* header.js 421 and 425, search module 647
WidgetNames == {"CarouselAPI", "ImageLoadingAPI", "FocalImageAPI", "TopBarAPI",
                "HeaderAPI", "MenuAPI", "SearchAPI"}

RECURSIVE invokeEach(_, _, _)
\* calls the functions of fns in order; with caught, each call sits in its own
\* try/catch and a throw is swallowed; without, the first throw ends the run
\* and reaches the caller
invokeEach(fns, caught, thr) ==
  IF fns = <<>> THEN [invoked |-> <<>>, propagated |-> FALSE]
  ELSE IF Head(fns) \in thr /\ ~caught
       THEN [invoked |-> <<Head(fns)>>, propagated |-> TRUE]
       ELSE LET rest == invokeEach(Tail(fns), caught, thr)
            IN [invoked |-> <<Head(fns)>> \o rest.invoked,
                propagated |-> rest.propagated]

entryFns(entries) == [i \in DOMAIN entries |-> entries[i].fn]
entryNames(entries) == {entries[i].name : i \in DOMAIN entries}
hasEntry(entries, name) == \E i \in DOMAIN entries : entries[i].name = name
entryFn(entries, name) ==
  LET i == CHOOSE k \in DOMAIN entries : entries[k].name = name IN entries[i].fn

RECURSIVE withoutEntry(_, _)
\* cleanupFunctions.delete(name)
withoutEntry(entries, name) ==
  IF entries = <<>> THEN <<>>
  ELSE IF Head(entries).name = name THEN withoutEntry(Tail(entries), name)
       ELSE <<Head(entries)>> \o withoutEntry(Tail(entries), name)

mapSetKeepsBoth(entries, name, fn) == Append(entries, [name |-> name, fn |-> fn])

\* cleanupFunctions.set(name, cleanupFn): a Map keeps one value per key, at
\* the position of the key's first insertion
mapSet(entries, name, fn) ==
  IF hasEntry(entries, name)
  THEN [i \in DOMAIN entries |->
          IF entries[i].name = name THEN [name |-> name, fn |-> fn] ELSE entries[i]]
  ELSE Append(entries, [name |-> name, fn |-> fn])

\* the composed hook () => { cleanupFn(); originalCleanup() }, written as the
\* list of the functions it calls in order
composeHook(hook, fn) == <<fn>> \o hook

\* register(name, cleanupFn) (utils.js 173-192)
register(entries, hook, win, name, fn) ==
  IF fn = NotAFunction
  THEN [entries |-> entries, hook |-> hook, win |-> win]
  ELSE [entries |-> mapSet(entries, name, fn),
        hook |-> IF hook # NoHook THEN composeHook(hook, fn) ELSE hook,
        win |-> IF hook # NoHook THEN win ELSE [win EXCEPT ![name] = fn]]

\* cleanup(name) (utils.js 194-200): the call is not guarded, so a throwing
\* teardown leaves before the entry is deleted
cleanup(entries, name, thr) ==
  IF ~hasEntry(entries, name)
  THEN [entries |-> entries, invoked |-> <<>>, propagated |-> FALSE]
  ELSE LET fn == entryFn(entries, name)
       IN [entries |-> IF fn \in thr THEN entries ELSE withoutEntry(entries, name),
           invoked |-> <<fn>>,
           propagated |-> fn \in thr]

cleanupAllUnguarded(entries, thr) ==
  LET run == invokeEach(entryFns(entries), FALSE, thr)
  IN [entries |-> IF run.propagated THEN entries ELSE <<>>,
      invoked |-> run.invoked, propagated |-> run.propagated]

\* cleanupAll() (utils.js 202-211): forEach with try/catch, then clear()
cleanupAll(entries, thr) ==
  LET run == invokeEach(entryFns(entries), TRUE, thr)
  IN [entries |-> <<>>, invoked |-> run.invoked, propagated |-> run.propagated]

\* the host calls window.themeCleanup(): nothing in the composed closures
\* catches
callThemeCleanup(hook, thr) == invokeEach(hook, FALSE, thr)

\* no function registered yet under any of the names
noHistory(names) == [n \in names |-> <<>>]

\* lastOp: the operation, the registry and name it was called with, the Map (or
\* the hook) and the registration history it found, the functions it invoked
\* in order and whether an exception reached its caller
NoOp == [op |-> "none", reg |-> 0, name |-> "", before |-> <<>>,
         history |-> <<>>, invoked |-> <<>>, propagated |-> FALSE]

\* one registry has been constructed by cleanupSystem(): its Map is empty
InitRegistry ==
  /\ registries = << <<>> >>
  /\ themeCleanup = NoHook
  /\ windowCleanup = [n \in RegNames |-> NoFn]
  /\ throws \in SUBSET TeardownFns
  /\ regHistory = <<noHistory(RegNames)>>
  /\ hookRegs = <<>>
  /\ registerCalls = 0
  /\ lastOp = NoOp

\* the host page defines its page-teardown hook
HostDefinesThemeCleanup ==
  /\ UNCHANGED notRegistry
  /\ themeCleanup = NoHook
  /\ themeCleanup' = <<HostHook>>
  /\ lastOp' = NoOp
  /\ UNCHANGED <<registries, windowCleanup, throws, regHistory, hookRegs, registerCalls>>

Register(r, name, fn) ==
  /\ UNCHANGED notRegistry
  /\ registerCalls < MaxRegisterCalls
  /\ LET after == register(registries[r], themeCleanup, windowCleanup, name, fn)
     IN /\ registries' = [registries EXCEPT ![r] = after.entries]
        /\ themeCleanup' = after.hook
        /\ windowCleanup' = after.win
  /\ regHistory' = IF fn = NotAFunction THEN regHistory
                   ELSE [regHistory EXCEPT ![r][name] = Append(@, fn)]
  /\ hookRegs' = IF fn # NotAFunction /\ themeCleanup # NoHook
                 THEN Append(hookRegs, fn) ELSE hookRegs
  /\ registerCalls' = registerCalls + 1
  /\ lastOp' = [NoOp EXCEPT !.op = "register", !.reg = r, !.name = name,
                            !.before = registries[r]]
  /\ UNCHANGED throws

Cleanup(r, name) ==
  /\ UNCHANGED notRegistry
  /\ LET after == cleanup(registries[r], name, throws)
     IN /\ registries' = [registries EXCEPT ![r] = after.entries]
        /\ regHistory' = IF hasEntry(after.entries, name) THEN regHistory
                         ELSE [regHistory EXCEPT ![r][name] = <<>>]
        /\ lastOp' = [op |-> "cleanup", reg |-> r, name |-> name,
                      before |-> registries[r], history |-> regHistory[r],
                      invoked |-> after.invoked, propagated |-> after.propagated]
  /\ UNCHANGED <<themeCleanup, windowCleanup, throws, hookRegs, registerCalls>>

CleanupAll(r) ==
  /\ UNCHANGED notRegistry
  /\ LET after == cleanupAll(registries[r], throws)
     IN /\ registries' = [registries EXCEPT ![r] = after.entries]
        /\ regHistory' = [regHistory EXCEPT ![r] =
                            [n \in DOMAIN regHistory[r] |->
                               IF hasEntry(after.entries, n) THEN @[n] ELSE <<>>]]
        /\ lastOp' = [op |-> "cleanupAll", reg |-> r, name |-> "",
                      before |-> registries[r], history |-> regHistory[r],
                      invoked |-> after.invoked, propagated |-> after.propagated]
  /\ UNCHANGED <<themeCleanup, windowCleanup, throws, hookRegs, registerCalls>>

\* the host fires the page-teardown hook before navigation
FireThemeCleanup ==
  /\ UNCHANGED notRegistry
  /\ themeCleanup # NoHook
  /\ LET run == callThemeCleanup(themeCleanup, throws)
     IN lastOp' = [op |-> "themeCleanup", reg |-> 0, name |-> "",
                   before |-> themeCleanup, history |-> <<>>,
                   invoked |-> run.invoked, propagated |-> run.propagated]
  /\ UNCHANGED <<registries, themeCleanup, windowCleanup, throws, regHistory,
                 hookRegs, registerCalls>>

NextRegistry ==
  \/ HostDefinesThemeCleanup
  \/ \E r \in DOMAIN registries, name \in RegNames, fn \in TeardownFns \cup {NotAFunction} :
       Register(r, name, fn)
  \/ \E r \in DOMAIN registries, name \in RegNames : Cleanup(r, name)
  \/ \E r \in DOMAIN registries : CleanupAll(r)
  \/ FireThemeCleanup

\* ------------------------------------------------------------------------
\* Widget modules: init<Widget>() at the end of every module
\* (carousel.js 437-446, image-loading.js 250-259, focal-image.js 205-214,
\*  top-bar.js 239-248, header.js 415-428, search module 641-650)
\* ------------------------------------------------------------------------
Widgets == {"carousel", "imageLoading", "focalImage", "topBar", "header", "search"}

\* the names a module registers, in order; header.js registers its component
\* teardown and then the menu's
registeredBy(m) ==
  CASE m = "carousel" -> <<"CarouselAPI">>
    [] m = "imageLoading" -> <<"ImageLoadingAPI">>
    [] m = "focalImage" -> <<"FocalImageAPI">>
    [] m = "topBar" -> <<"TopBarAPI">>
    [] m = "header" -> <<"HeaderAPI", "MenuAPI">>
    [] m = "search" -> <<"SearchAPI">>

RECURSIVE registerEach(_, _, _, _)
\* globalCleanup.register(name, teardown) for each name of names, in order;
\* the teardown closure is named after its entry
registerEach(entries, hook, win, names) ==
  IF names = <<>> THEN [entries |-> entries, hook |-> hook, win |-> win]
  ELSE LET one == register(entries, hook, win, Head(names), Head(names))
       IN registerEach(one.entries, one.hook, one.win, Tail(names))

\* const globalCleanup = cleanupSystem(): every init<Widget>() constructs its
\* own registry, kept under the module's name here
cleanupSystem(regs, m) == regs @@ (m :> <<>>)

InitWidgets ==
  /\ registries = <<>>
  /\ themeCleanup = NoHook
  /\ windowCleanup = [n \in WidgetNames |-> NoFn]
  /\ throws = {}
  /\ regHistory = <<>>
  /\ hookRegs = <<>>
  /\ registerCalls = 0
  /\ lastOp = NoOp

\* init<Widget>(): construct the registry, initialise the component, and
\* register its teardown unless the component found no DOM to work on
\* (cleanup is null: `if (!cleanup) return`)
InitWidget(m) ==
  /\ UNCHANGED notRegistry
  /\ m \notin DOMAIN registries
  /\ \E domPresent \in BOOLEAN :
       LET regs == cleanupSystem(registries, m)
           names == IF domPresent THEN registeredBy(m) ELSE <<>>
           after == registerEach(regs[m], themeCleanup, windowCleanup, names)
       IN /\ registries' = [regs EXCEPT ![m] = after.entries]
          /\ themeCleanup' = after.hook
          /\ windowCleanup' = after.win
          /\ regHistory' = regHistory @@
               (m :> [n \in WidgetNames |->
                        IF hasEntry(after.entries, n) THEN <<n>> ELSE <<>>])
          /\ hookRegs' = IF themeCleanup # NoHook THEN hookRegs \o names ELSE hookRegs
          /\ registerCalls' = registerCalls + Len(names)
          /\ lastOp' = NoOp
  /\ UNCHANGED throws

NextWidgets ==
  \/ \E m \in Widgets : InitWidget(m)
  \/ HostDefinesThemeCleanup
  \/ FireThemeCleanup

\* ------------------------------------------------------------------------
\* Carousel (carousel.js)
\* ------------------------------------------------------------------------
Null == "null"

\* CarouselConfig.maxSlidesDesktop
MaxSlidesDesktop == 4
\* CarouselConfig.autoplay.stopInteraction
StopInteraction == TRUE

\* slide counts around the threshold
SlideCounts == {MaxSlidesDesktop - 1, MaxSlidesDesktop, MaxSlidesDesktop + 1}
\* values of the data-timer attribute
TimerAttrs == {NoAttribute, <<"0">>, <<"3", "0", "0", "0">>}
\* texts that are negative or not a number
OtherTimerAttrs == {<<"-", "5">>, <<"a", "b", "c">>}
\* the dots the template rendered
DotCounts == {0, 2}

\* parseInt(text): an optional sign and the digits that follow it; NaN when
\* there is no digit
parseInt(s) ==
  LET neg == s # <<>> /\ Head(s) = "-"
      ds == takeDigits(IF neg THEN Tail(s) ELSE s)
  IN IF ds = <<>> THEN [nan |-> TRUE, value |-> 0]
     ELSE [nan |-> FALSE, value |-> IF neg THEN 0 - toNumber(ds) ELSE toNumber(ds)]

parseTimerKeepsSign(attr) ==
  LET n == parseInt(attr)
  IN IF n.nan THEN 0 ELSE IF n.value < 0 THEN 0 - n.value ELSE n.value

\* parseInt of each data-timer text, evaluated once
parsedTimers == [attr \in TimerAttrs \cup OtherTimerAttrs |-> parseInt(attr)]

\* parseInt(carousel.getAttribute('data-timer')) || 0
parseTimer(attr) ==
  LET n == parsedTimers[attr] IN IF n.nan \/ n.value = 0 THEN 0 ELSE n.value

\* every combination with the first three timer texts; the other timer
\* texts on a carousel with five slides, pause-on-hover and every control
Markups ==
  [slides : SlideCounts, timer : TimerAttrs, pause : BOOLEAN,
   buttons : {{}, {"btnPrev"}, {"btnPrev", "btnNext"}}, dots : DotCounts]
    \cup [slides : {MaxSlidesDesktop + 1}, timer : OtherTimerAttrs, pause : {TRUE},
          buttons : {{"btnPrev", "btnNext"}}, dots : {2}]

\* DOM elements and handlers, each a pair so that they compare
CarouselEl == <<"carousel", 0>>
EmblaEl == <<"embla", 0>>
BtnPrevEl == <<"btnPrev", 0>>
BtnNextEl == <<"btnNext", 0>>
DotEl(i) == <<"dot", i>>

\* desktop(): mediaQuery && mediaQuery.matches
desktop(mq, matches) == mq # Null /\ matches

\* checkCarousel() (carousel.js 317-323)
checkCarousel(mq, matches, slideCount) ==
  IF ~desktop(mq, matches) THEN TRUE ELSE slideCount > MaxSlidesDesktop

\* autoplay = null (carousel.js 303, 336): no autoplay object
NoAutoplay == [null |-> TRUE]

\* CarouselAutoplay(embla, delay) (carousel.js 128-171)
CarouselAutoplay == [active |-> TRUE, interval |-> FALSE]

autoplayStart(a) ==
  IF ~a.active \/ a.interval THEN a ELSE [a EXCEPT !.interval = TRUE]

autoplayStopKeepsInterval(a) == a

autoplayStop(a) == IF ~a.interval THEN a ELSE [a EXCEPT !.interval = FALSE]

autoplayPauseDeactivates(a) == [a EXCEPT !.active = FALSE, !.interval = FALSE]

autoplayPause(a) == autoplayStop(a)

autoplayResume(a) == IF a.active THEN autoplayStart(a) ELSE a

autoplayStopPermanently(a) == autoplayStop([a EXCEPT !.active = FALSE])

handleCarouselRestartsWhileHovering(a, hovering, isControl) ==
  IF ~StopInteraction THEN a
  ELSE IF isControl THEN autoplayStart(autoplayStop(a))
       ELSE autoplayStopPermanently(a)

\* CarouselProcessor.handleCarousel(e) (carousel.js 188-202), for an autoplay
\* that exists; isControl: e.target.closest('.carousel__btn, .carousel__dot')
handleCarousel(a, hovering, isControl) ==
  IF ~StopInteraction THEN a
  ELSE IF isControl
       THEN IF ~hovering THEN autoplayStart(autoplayStop(a)) ELSE autoplayStop(a)
       ELSE autoplayStopPermanently(a)

\* CarouselButtonsRenderer (carousel.js 83-93): null unless both buttons exist
CarouselButtonsRenderer(m) == {"btnPrev", "btnNext"} \subseteq m.buttons

\* CarouselDotsRenderer (carousel.js 95-97): null without dots
CarouselDotsRenderer(m) == m.dots > 0

\* a subscription: the element, the event and the handler closure, which
\* belongs to the mount (gen) that created it
Listener(el, ev, fn, gen) == [element |-> el, event |-> ev, handler |-> <<fn, gen>>]

\* the addEventListener calls of CarouselEvents.init (carousel.js 236-277), in
\* order, with the placeholder entry for the engine
subscriptions(m, gen) ==
  (IF CarouselButtonsRenderer(m)
   THEN <<Listener(BtnPrevEl, "click", "handlePrev", gen),
          Listener(BtnNextEl, "click", "handleNext", gen)>>
   ELSE <<>>)
  \o (IF CarouselDotsRenderer(m)
      THEN [i \in 1..m.dots |-> Listener(DotEl(i), "click", "handleDot", gen)]
      ELSE <<>>)
  \o <<Listener(EmblaEl, "destroy", "placeholder", gen)>>
  \o (IF parseTimer(m.timer) > 0
      THEN (IF m.pause
            THEN <<Listener(CarouselEl, "mouseenter", "handleMouseEnter", gen),
                   Listener(CarouselEl, "mouseleave", "handleMouseLeave", gen)>>
            ELSE <<>>)
           \o (IF StopInteraction
               THEN <<Listener(CarouselEl, "click", "handleCarousel", gen),
                      Listener(CarouselEl, "touchstart", "handleCarousel", gen)>>
               ELSE <<>>)
      ELSE <<>>)

\* element.addEventListener for every tracked entry but the engine's
domSubscriptions(tracked) ==
  {tracked[i] : i \in {k \in DOMAIN tracked : tracked[k].element # EmblaEl}}

eventsDestroyKeepsCarousel(tracked) ==
  {tracked[i] : i \in {k \in DOMAIN tracked :
                         tracked[k].element \notin {EmblaEl, CarouselEl}}}

\* CarouselEvents.destroy (carousel.js 282-288): the listeners handed to
\* removeEventListener; the engine's entry is skipped
eventsDestroy(tracked) ==
  {tracked[i] : i \in {k \in DOMAIN tracked : tracked[k].element # EmblaEl}}

listening(el, ev, fn) ==
  \E l \in domListeners : l.element = el /\ l.event = ev /\ l.handler = <<fn, embla>>

initCarouselWithoutGuard ==
  LET gen == mounts + 1
      timer == parseTimer(markup.timer)
      tracked == subscriptions(markup, gen)
      added == domSubscriptions(tracked) \ domListeners
  IN /\ embla' = gen
     /\ selected' = 0
     /\ autoplay' = IF timer > 0 THEN autoplayStart(CarouselAutoplay) ELSE NoAutoplay
     /\ isHovering' = FALSE
     /\ eventListeners' = tracked
     /\ domListeners' = domListeners \cup added
     /\ attached' = attached + Cardinality(added)
     /\ initialized' = TRUE
     /\ visibilityObserver' = IF timer > 0 THEN "observing" ELSE Null
     /\ host' = IF timer > 0
                THEN [host EXCEPT !.watched = @ \cup {CarouselEl}]
                ELSE host
     /\ mounts' = gen
     /\ mountLog' = mountLog \cup {viewportDesktop}

\* initCarousel() (carousel.js 325-355)
initCarousel ==
  IF initialized
  THEN UNCHANGED <<initialized, embla, selected, autoplay, isHovering,
                   visibilityObserver, eventListeners, domListeners, attached,
                   mounts, mountLog, host>>
  ELSE LET gen == mounts + 1
           timer == parseTimer(markup.timer)
           tracked == subscriptions(markup, gen)
           added == domSubscriptions(tracked) \ domListeners
       IN /\ embla' = gen
          /\ selected' = 0
          /\ autoplay' = IF timer > 0 THEN autoplayStart(CarouselAutoplay) ELSE NoAutoplay
          /\ isHovering' = FALSE
          /\ eventListeners' = tracked
          /\ domListeners' = domListeners \cup added
          /\ attached' = attached + Cardinality(added)
          /\ initialized' = TRUE
          /\ visibilityObserver' = IF timer > 0 THEN "observing" ELSE Null
          /\ host' = IF timer > 0
                     THEN [host EXCEPT !.watched = @ \cup {CarouselEl}]
                     ELSE host
          /\ mounts' = gen
          /\ mountLog' = mountLog \cup {viewportDesktop}

\* destroyCarousel() (carousel.js 357-373)
destroyCarousel ==
  IF ~initialized
  THEN UNCHANGED <<initialized, embla, selected, autoplay, isHovering,
                   visibilityObserver, eventListeners, domListeners, removed, host>>
  ELSE LET handed == eventsDestroy(eventListeners)
           gone == handed \cap domListeners
           stopped == IF autoplay = NoAutoplay THEN autoplay ELSE autoplayStop(autoplay)
       IN /\ visibilityObserver' = Null
          /\ host' =
               [watched |-> IF visibilityObserver = Null THEN host.watched ELSE {},
                emblaDestroy |-> host.emblaDestroy + 1,
                emblaRemoveListener |->
                  host.emblaRemoveListener
                    + Cardinality({l \in handed : l.element = EmblaEl}),
                leakedIntervals |->
                  host.leakedIntervals
                    + (IF stopped # NoAutoplay /\ stopped.interval THEN 1 ELSE 0)]
          /\ domListeners' = domListeners \ gone
          /\ removed' = removed + Cardinality(gone)
          /\ eventListeners' = <<>>
          /\ autoplay' = NoAutoplay
          /\ embla' = 0
          /\ selected' = 0
          /\ isHovering' = FALSE
          /\ initialized' = FALSE

\* nothing watched, no engine destroyed, no interval left behind
NoHost ==
  [watched |-> {}, emblaDestroy |-> 0, emblaRemoveListener |-> 0, leakedIntervals |-> 0]

\* a mount is possible within the bound
canMount == initialized \/ mounts < MaxMounts

InitCarousel ==
  /\ markup \in Markups
  /\ viewportDesktop \in BOOLEAN
  /\ pointerInside \in BOOLEAN
  /\ started = FALSE
  /\ mediaQuery = Null
  /\ mqListener = FALSE
  /\ debounceTimer = FALSE
  /\ initialized = FALSE
  /\ embla = 0
  /\ selected = 0
  /\ autoplay = NoAutoplay
  /\ isHovering = FALSE
  /\ visibilityObserver = Null
  /\ eventListeners = <<>>
  /\ domListeners = {}
  /\ attached = 0
  /\ removed = 0
  /\ mounts = 0
  /\ mountLog = {}
  /\ permStopped = FALSE
  /\ host = NoHost
  /\ lastEvent = "none"

\* instance.init() (carousel.js 383-390)
InstanceInit ==
  /\ UNCHANGED notCarousel
  /\ ~started
  /\ started' = TRUE
  /\ mediaQuery' = "mql"
  /\ mqListener' = TRUE
  /\ IF checkCarousel("mql", viewportDesktop, markup.slides)
     THEN initCarousel /\ UNCHANGED removed
     ELSE UNCHANGED <<initialized, embla, selected, autoplay, isHovering,
                      visibilityObserver, eventListeners, domListeners, attached,
                      removed, mounts, mountLog, host>>
  /\ lastEvent' = "init"
  /\ UNCHANGED <<markup, viewportDesktop, pointerInside, debounceTimer, permStopped>>

\* the viewport crosses the breakpoint: the MediaQueryList fires 'change' and
\* handleMediaQuery, the debounced handler, (re)arms its timeout
ViewportChange ==
  /\ UNCHANGED notCarousel
  /\ viewportDesktop' = ~viewportDesktop
  /\ debounceTimer' = (debounceTimer \/ mqListener)
  /\ lastEvent' = "change"
  /\ UNCHANGED <<markup, pointerInside, started, mediaQuery, mqListener, initialized,
                 embla, selected, autoplay, isHovering, visibilityObserver,
                 eventListeners, domListeners, attached, removed, mounts, mountLog,
                 permStopped, host>>

\* the debounce timeout fires: debounceHandler() (carousel.js 375-379)
DebounceFire ==
  /\ UNCHANGED notCarousel
  /\ debounceTimer
  /\ debounceTimer' = FALSE
  /\ IF checkCarousel(mediaQuery, viewportDesktop, markup.slides)
     THEN canMount /\ initCarousel /\ UNCHANGED removed
     ELSE destroyCarousel /\ UNCHANGED <<attached, mounts, mountLog>>
  /\ lastEvent' = "debounce"
  /\ UNCHANGED <<markup, viewportDesktop, pointerInside, started, mediaQuery,
                 mqListener, permStopped>>

\* the teardown closure returned by instance.init(): destroy()
\* (carousel.js 392-399)
InstanceDestroy ==
  /\ UNCHANGED notCarousel
  /\ started
  /\ mediaQuery' = Null
  /\ mqListener' = FALSE
  /\ destroyCarousel
  /\ lastEvent' = "teardown"
  /\ UNCHANGED <<markup, viewportDesktop, pointerInside, started, debounceTimer,
                 attached, mounts, mountLog, permStopped>>

unchangedByHandler ==
  UNCHANGED <<markup, viewportDesktop, started, mediaQuery, mqListener, debounceTimer,
              initialized, embla, visibilityObserver, eventListeners, domListeners,
              attached, removed, mounts, mountLog, host>>

\* the pointer enters the carousel: handleMouseEnter (carousel.js 204-209),
\* when subscribed
MouseEnter ==
  /\ UNCHANGED notCarousel
  /\ ~pointerInside
  /\ pointerInside' = TRUE
  /\ IF listening(CarouselEl, "mouseenter", "handleMouseEnter") /\ autoplay # NoAutoplay
     THEN isHovering' = TRUE /\ autoplay' = autoplayPause(autoplay)
     ELSE UNCHANGED <<isHovering, autoplay>>
  /\ lastEvent' = "mouseenter"
  /\ unchangedByHandler
  /\ UNCHANGED <<selected, permStopped>>

\* the pointer leaves the carousel: handleMouseLeave (carousel.js 211-216)
MouseLeave ==
  /\ UNCHANGED notCarousel
  /\ pointerInside
  /\ pointerInside' = FALSE
  /\ IF listening(CarouselEl, "mouseleave", "handleMouseLeave") /\ autoplay # NoAutoplay
     THEN isHovering' = FALSE /\ autoplay' = autoplayResume(autoplay)
     ELSE UNCHANGED <<isHovering, autoplay>>
  /\ lastEvent' = "mouseleave"
  /\ unchangedByHandler
  /\ UNCHANGED <<selected, permStopped>>

\* where a click or touch can land
Targets == {"outside", "btnPrev", "btnNext", "dot1", "dot2"}
targetExists(t) ==
  \/ t = "outside"
  \/ t \in markup.buttons
  \/ t = "dot1" /\ markup.dots >= 1
  \/ t = "dot2" /\ markup.dots >= 2

\* the engine call of the control's own click handler (carousel.js 176-186)
scrollAfterClick(t) ==
  IF t = "btnPrev" /\ listening(BtnPrevEl, "click", "handlePrev")
    THEN (selected + markup.slides - 1) % markup.slides
  ELSE IF t = "btnNext" /\ listening(BtnNextEl, "click", "handleNext")
    THEN (selected + 1) % markup.slides
  ELSE IF t = "dot1" /\ listening(DotEl(1), "click", "handleDot") THEN 0
  ELSE IF t = "dot2" /\ listening(DotEl(2), "click", "handleDot") THEN 1
  ELSE selected

\* a click or touchstart reaches the carousel element: handleCarousel
Interaction(ev, t) ==
  IF listening(CarouselEl, ev, "handleCarousel") /\ autoplay # NoAutoplay
  THEN /\ autoplay' = handleCarousel(autoplay, isHovering, t # "outside")
       /\ permStopped' = (permStopped \/ (StopInteraction /\ t = "outside"))
  ELSE UNCHANGED <<autoplay, permStopped>>

\* a click: the control's handler runs, then the click bubbles to the carousel
Click(t) ==
  /\ UNCHANGED notCarousel
  /\ targetExists(t)
  /\ selected' = scrollAfterClick(t)
  /\ Interaction("click", t)
  /\ lastEvent' = "click"
  /\ unchangedByHandler
  /\ UNCHANGED <<pointerInside, isHovering>>

\* a touchstart: only the carousel element listens
TouchStart(t) ==
  /\ UNCHANGED notCarousel
  /\ targetExists(t)
  /\ Interaction("touchstart", t)
  /\ lastEvent' = "touchstart"
  /\ unchangedByHandler
  /\ UNCHANGED <<pointerInside, isHovering, selected>>

\* the visibility watcher reports: observerHandler (carousel.js 344-350)
Intersection(isIntersecting) ==
  /\ UNCHANGED notCarousel
  /\ visibilityObserver # Null
  /\ CarouselEl \in host.watched
  /\ autoplay' = IF isIntersecting THEN autoplayResume(autoplay)
                 ELSE autoplayPause(autoplay)
  /\ lastEvent' = "intersection"
  /\ unchangedByHandler
  /\ UNCHANGED <<pointerInside, isHovering, selected, permStopped>>

\* the autoplay interval ticks: intervalHandler (carousel.js 135-139); with
\* loop the last slide is followed by the first either way
AutoplayTick ==
  /\ UNCHANGED notCarousel
  /\ autoplay # NoAutoplay
  /\ autoplay.interval
  /\ selected' = (selected + 1) % markup.slides
  /\ lastEvent' = "tick"
  /\ unchangedByHandler
  /\ UNCHANGED <<pointerInside, isHovering, autoplay, permStopped>>

NextCarousel ==
  \/ InstanceInit
  \/ ViewportChange
  \/ DebounceFire
  \/ InstanceDestroy
  \/ MouseEnter
  \/ MouseLeave
  \/ \E t \in Targets : Click(t)
  \/ \E t \in Targets : TouchStart(t)
  \/ \E isIntersecting \in BOOLEAN : Intersection(isIntersecting)
  \/ AutoplayTick

\* ------------------------------------------------------------------------
\* Visibility observer: intersectionObserver (utils.js 57-97)
\* ------------------------------------------------------------------------
\* the elements a caller hands to observe / unobserve
Elements == {"e1", "e2"}
\* the callback the handle is constructed with
Callbacks == {"cbA", "cbB"}
\* no option given
NoOptions == [k \in {} |-> 0]
\* the options callers pass: none, a threshold in hundredths (carousel.js
\* 352), a threshold and a root margin
OptionSets == {NoOptions, [threshold |-> 10], [threshold |-> 10, rootMargin |-> "0px"]}

\* defaultOptions (utils.js 58-62), threshold in hundredths
defaultOptions == [root |-> "null", rootMargin |-> "100px", threshold |-> 1]

\* { ...defaults, ...options }
spread(defaults, options) ==
  [k \in DOMAIN defaults \cup DOMAIN options |->
     IF k \in DOMAIN options THEN options[k] ELSE defaults[k]]

\* new IntersectionObserver(callback, config): watches nothing yet
newIntersectionObserver(cb, cfg) == [callback |-> cb, config |-> cfg, watched |-> {}]

\* the handle's state: observer, 0 for null or the index of the watcher it
\* holds, and every watcher constructed so far
ioInitAlwaysCreates(h, cb, cfg) ==
  [observer |-> Len(h.watchers) + 1,
   watchers |-> Append(h.watchers, newIntersectionObserver(cb, cfg))]

\* init() (utils.js 67-74)
ioInit(h, cb, cfg) ==
  IF h.observer # 0 THEN h
  ELSE [observer |-> Len(h.watchers) + 1,
        watchers |-> Append(h.watchers, newIntersectionObserver(cb, cfg))]

ioDestroyKeepsWatching(h) == [h EXCEPT !.observer = 0]

\* destroy() (utils.js 76-79): disconnect() empties the watched set
ioDestroy(h) ==
  IF h.observer = 0 THEN h
  ELSE [observer |-> 0,
        watchers |-> [h.watchers EXCEPT ![h.observer].watched = {}]]

\* observe(element) (utils.js 81-84)
ioObserve(h, cb, cfg, element) ==
  LET g == IF h.observer = 0 THEN ioInit(h, cb, cfg) ELSE h
  IN IF g.observer = 0 THEN g
     ELSE [g EXCEPT !.watchers[g.observer].watched = @ \cup {element}]

\* unobserve(element) (utils.js 86-88)
ioUnobserve(h, element) ==
  IF h.observer = 0 THEN h
  ELSE [h EXCEPT !.watchers[h.observer].watched = @ \ {element}]

ioHandle == [observer |-> ioObserver, watchers |-> ioWatchers]
NoIoCall == [op |-> "none", element |-> "", watcher |-> 0]

\* intersectionObserver(callback, options): config merged, observer = null
InitObserver ==
  /\ ioCallback \in Callbacks
  /\ ioConfig \in {spread(defaultOptions, o) : o \in OptionSets}
  /\ ioObserver = 0
  /\ ioWatchers = <<>>
  /\ ioLast = NoIoCall

\* the handle moves to state h by the call op
ioStep(h, op, element) ==
  /\ Len(h.watchers) <= MaxWatchers
  /\ ioObserver' = h.observer
  /\ ioWatchers' = h.watchers
  /\ ioLast' = [op |-> op, element |-> element, watcher |-> h.observer]
  /\ UNCHANGED <<ioCallback, ioConfig>>

ObserverInit ==
  /\ UNCHANGED notObserver
  /\ ioStep(ioInit(ioHandle, ioCallback, ioConfig), "init", "")

ObserverDestroy ==
  /\ UNCHANGED notObserver
  /\ ioStep(ioDestroy(ioHandle), "destroy", "")

ObserverObserve(element) ==
  /\ UNCHANGED notObserver
  /\ ioStep(ioObserve(ioHandle, ioCallback, ioConfig, element), "observe", element)

ObserverUnobserve(element) ==
  /\ UNCHANGED notObserver
  /\ ioStep(ioUnobserve(ioHandle, element), "unobserve", element)

\* the browser reports an intersection change of a watched element to the
\* callback of the watcher that watches it
ObserverCallback(w, element) ==
  /\ UNCHANGED notObserver
  /\ w \in DOMAIN ioWatchers
  /\ element \in ioWatchers[w].watched
  /\ ioLast' = [op |-> "callback", element |-> element, watcher |-> w]
  /\ UNCHANGED <<ioCallback, ioConfig, ioObserver, ioWatchers>>

NextObserver ==
  \/ ObserverInit
  \/ ObserverDestroy
  \/ \E element \in Elements : ObserverObserve(element)
  \/ \E element \in Elements : ObserverUnobserve(element)
  \/ \E w \in 1..MaxWatchers, element \in Elements : ObserverCallback(w, element)

\* ------------------------------------------------------------------------
\* Resize observer: resizeObserver (utils.js 102-165)
\* ------------------------------------------------------------------------
\* values of window.innerWidth
Widths == {320, 768, 1024}
\* options of the callers: the default debounceTime, or none; width or not
ResizeConfigs == [debounceTime : {0, 150}, width : BOOLEAN]
\* no timeout pending
NoTimeout == 0

trackWidthChangeKeepsLastWidth(cfg, currentWidth, last) ==
  IF ~cfg.width THEN [unchanged |-> FALSE, lastWidth |-> last]
  ELSE [unchanged |-> currentWidth = last, lastWidth |-> last]

\* trackWidthChange() (utils.js 119-125): what it returns and what it leaves
\* in lastWidth
trackWidthChange(cfg, currentWidth, last) ==
  IF ~cfg.width THEN [unchanged |-> FALSE, lastWidth |-> last]
  ELSE IF currentWidth = last THEN [unchanged |-> TRUE, lastWidth |-> last]
  ELSE [unchanged |-> FALSE, lastWidth |-> currentWidth]

\* debounced(data) (utils.js 114-117, 11-17): with a debounceTime the pending
\* timeout is replaced, without one frame(data) is called at once
debounced(cfg, timeout, frames, data) ==
  IF cfg.debounceTime > 0
  THEN [timeout |-> data, frames |-> frames]
  ELSE [timeout |-> timeout, frames |-> Append(frames, data)]

\* resizeObserver(callback, options): lastWidth = window.innerWidth
InitResize ==
  /\ roConfig \in ResizeConfigs
  /\ innerWidth \in Widths
  /\ lastWidth = innerWidth
  /\ roObserver = FALSE
  /\ roTimeout = NoTimeout
  /\ roFrames = <<>>
  /\ roLog = <<>>
  /\ roDelivered = <<>>
  /\ roWidth0 = innerWidth

\* init() (utils.js 132-142)
ResizeInit ==
  /\ UNCHANGED notResize
  /\ ~roObserver
  /\ roObserver' = TRUE
  /\ UNCHANGED <<roConfig, innerWidth, lastWidth, roTimeout, roFrames, roLog,
                 roDelivered, roWidth0>>

\* destroy() (utils.js 144-147)
ResizeDestroy ==
  /\ UNCHANGED notResize
  /\ roObserver
  /\ roObserver' = FALSE
  /\ UNCHANGED <<roConfig, innerWidth, lastWidth, roTimeout, roFrames, roLog,
                 roDelivered, roWidth0>>

\* the observed element is resized with window.innerWidth = w afterwards (the
\* same width when only the height changes) and the native observer calls
\* handleCallback(data) (utils.js 127-130); data is the notification's number
ResizeNotification(w) ==
  /\ UNCHANGED notResize
  /\ roObserver
  /\ Len(roLog) < MaxNotifications
  /\ innerWidth' = w
  /\ LET data == Len(roLog) + 1
         t == trackWidthChange(roConfig, w, lastWidth)
         d == debounced(roConfig, roTimeout, roFrames, data)
     IN /\ lastWidth' = t.lastWidth
        /\ roLog' = Append(roLog, w)
        /\ IF t.unchanged
           THEN UNCHANGED <<roTimeout, roFrames>>
           ELSE roTimeout' = d.timeout /\ roFrames' = d.frames
  /\ UNCHANGED <<roConfig, roObserver, roDelivered, roWidth0>>

\* the debounce timeout fires: frame(data) = nextFrame(() => callback(data))
ResizeTimeout ==
  /\ UNCHANGED notResize
  /\ roTimeout # NoTimeout
  /\ roFrames' = Append(roFrames, roTimeout)
  /\ roTimeout' = NoTimeout
  /\ UNCHANGED <<roConfig, innerWidth, lastWidth, roObserver, roLog, roDelivered,
                 roWidth0>>

\* the next animation frame: callback(data)
ResizeFrame ==
  /\ UNCHANGED notResize
  /\ roFrames # <<>>
  /\ roDelivered' = Append(roDelivered, Head(roFrames))
  /\ roFrames' = Tail(roFrames)
  /\ UNCHANGED <<roConfig, innerWidth, lastWidth, roObserver, roTimeout, roLog,
                 roWidth0>>

NextResize ==
  \/ ResizeInit
  \/ ResizeDestroy
  \/ \E w \in Widths : ResizeNotification(w)
  \/ ResizeTimeout
  \/ ResizeFrame

\* ------------------------------------------------------------------------
\* Lazy image loader (image-loading.js)
\* ------------------------------------------------------------------------
\* the .image-main elements of the page, each in a wrapper with a placeholder
Images == {"imgA", "imgB"}

\* an image as the template rendered it: class 'hidden', not observed, no
\* 'load' listener, no transition made
LazyImages ==
  [hidden : {TRUE}, complete : BOOLEAN, inViewport : BOOLEAN, loadListeners : {0},
   transitions : {0}, loadAt : {"none"}, observedEver : {FALSE}]

\* fadeInImage(mainImage, placeholder, isInViewport) (image-loading.js
\* 125-135): loadSources, 'hidden' replaced by 'loaded', placeholder faded
fadeInImage(im) == [im EXCEPT !.hidden = FALSE, !.transitions = @ + 1]

\* loadImage(mainImage, isInViewport) (image-loading.js 137-154); at: the
\* caller, recorded for the first call that passes the guards
loadImage(im, at) ==
  IF ~im.hidden THEN im
  ELSE LET called == [im EXCEPT !.loadAt = IF @ = "none" THEN at ELSE @]
       IN IF called.complete
          THEN fadeInImage(called)
          ELSE [called EXCEPT !.loadListeners = @ + 1]

\* the loader's state: the images and the handle of imageObserver
processImageAlwaysObserves(st, i) ==
  IF ~st.images[i].hidden THEN st
  ELSE [images |-> [st.images EXCEPT ![i].observedEver = TRUE],
        handle |-> ioObserve(st.handle, "observerCallback", defaultOptions, i)]

\* the body of processImages' forEach for one wrapper (image-loading.js
\* 163-176)
processImage(st, i) ==
  IF ~st.images[i].hidden THEN st
  ELSE IF st.images[i].inViewport
       THEN [st EXCEPT !.images[i] = loadImage(@, "scan")]
       ELSE [images |-> [st.images EXCEPT ![i].observedEver = TRUE],
             handle |-> ioObserve(st.handle, "observerCallback", defaultOptions, i)]

\* processImages(wrappers, observer) (image-loading.js 161-177)
RECURSIVE processImages(_, _)
processImages(st, wrappers) ==
  IF wrappers = {} THEN st
  ELSE LET i == CHOOSE w \in wrappers : TRUE
       IN processImages(processImage(st, i), wrappers \ {i})

\* the body of observerCallback's forEach for one entry (image-loading.js
\* 187-191)
observerEntry(st, entry) ==
  IF ~entry.isIntersecting THEN st
  ELSE [images |-> [st.images EXCEPT ![entry.target] = loadImage(@, "callback")],
        handle |-> ioUnobserve(st.handle, entry.target)]

\* observerCallback(entries) (image-loading.js 186-192)
RECURSIVE observerCallback(_, _)
observerCallback(st, entries) ==
  IF entries = <<>> THEN st
  ELSE observerCallback(observerEntry(st, Head(entries)), Tail(entries))

\* the entries one callback can carry: an entry per change the watcher
\* recorded since the last callback, so that the entries of one target
\* alternate between intersecting and not
Entries == [target : Images, isIntersecting : BOOLEAN]
alternating(entries) ==
  \A k, l \in DOMAIN entries :
    (/\ k < l
     /\ entries[k].target = entries[l].target
     /\ \A m \in (k + 1)..(l - 1) : entries[m].target # entries[k].target)
      => entries[k].isIntersecting # entries[l].isIntersecting
EntryLists ==
  {entries \in UNION {[1..n -> Entries] : n \in 1..MaxEntries} : alternating(entries)}

NoImageObserver == [observer |-> 0, watchers |-> <<>>]
imgState == [images |-> images, handle |-> imgHandle]

InitImages ==
  /\ images \in [Images -> LazyImages]
  /\ imgHandle = NoImageObserver
  /\ imgStarted = FALSE
  /\ imgLast = "none"

\* imageComponent.init() (image-loading.js 221-236): observerManager.init()
\* and the scan
ImageInit ==
  /\ UNCHANGED notImages
  /\ ~imgStarted
  /\ imgStarted' = TRUE
  /\ LET st == processImages(
                 [images |-> images,
                  handle |-> ioInit(imgHandle, "observerCallback", defaultOptions)],
                 Images)
     IN images' = st.images /\ imgHandle' = st.handle
  /\ imgLast' = "scan"

\* the watcher calls observerCallback with the entries of watched images
ImageIntersection(entries) ==
  /\ UNCHANGED notImages
  /\ imgHandle.observer # 0
  /\ \A k \in DOMAIN entries :
       entries[k].target \in imgHandle.watchers[imgHandle.observer].watched
  /\ LET st == observerCallback(imgState, entries)
     IN images' = st.images /\ imgHandle' = st.handle
  /\ imgLast' = "callback"
  /\ UNCHANGED imgStarted

\* the image has loaded: it is complete, and its 'load' listeners, each
\* attached with once, call fadeInImage
RECURSIVE fadeInImageTimes(_, _)
fadeInImageTimes(im, n) ==
  IF n = 0 THEN im ELSE fadeInImageTimes(fadeInImage(im), n - 1)

ImageLoadEvent(i) ==
  /\ UNCHANGED notImages
  /\ ~images[i].complete
  /\ images' = [images EXCEPT ![i] =
                  [fadeInImageTimes(@, @.loadListeners)
                     EXCEPT !.complete = TRUE, !.loadListeners = 0]]
  /\ imgLast' = "load"
  /\ UNCHANGED <<imgHandle, imgStarted>>

\* the teardown closure: observerManager.destroy() (image-loading.js
\* 238-244, 202-207)
ImageDestroy ==
  /\ UNCHANGED notImages
  /\ imgStarted
  /\ imgHandle.observer # 0
  /\ imgHandle' = ioDestroy(imgHandle)
  /\ imgLast' = "teardown"
  /\ UNCHANGED <<images, imgStarted>>

NextImages ==
  \/ ImageInit
  \/ \E entries \in EntryLists : ImageIntersection(entries)
  \/ \E i \in Images : ImageLoadEvent(i)
  \/ ImageDestroy

\* ------------------------------------------------------------------------
\* Focal-point cropper: FocalCalculator (focal-image.js 64-93)
\* ------------------------------------------------------------------------
\* values of data-focal-x / data-focal-y as the template renders them, each
\* with the number it stands for in hundredths: inside [-1, 1], on its ends
\* and outside
Coordinates ==
  {[text |-> <<"-", "1">>, value |-> -100],
   [text |-> <<"-", "0", ".", "5">>, value |-> -50],
   [text |-> <<"0">>, value |-> 0],
   [text |-> <<"0", ".", "2", "5">>, value |-> 25],
   [text |-> <<"1">>, value |-> 100],
   [text |-> <<"1", ".", "5">>, value |-> 150],
   [text |-> <<"-", "2">>, value |-> -200]}

\* parseFloat(coordinate), in hundredths: an optional sign, digits, an
\* optional fraction; NaN when there is no digit
parseFloat(s) ==
  LET neg == s # <<>> /\ Head(s) = "-"
      body == IF neg THEN Tail(s) ELSE s
      ip == takeDigits(body)
      rest == SubSeq(body, Len(ip) + 1, Len(body))
      fp == IF rest # <<>> /\ Head(rest) = "." THEN takeDigits(Tail(rest)) ELSE <<>>
      hundredths == toNumber(ip) * 100 + toNumber(SubSeq(fp \o <<"0", "0">>, 1, 2))
  IN IF ip = <<>> /\ fp = <<>> THEN [nan |-> TRUE, value |-> 0]
     ELSE [nan |-> FALSE, value |-> IF neg THEN 0 - hundredths ELSE hundredths]

Max(a, b) == IF a >= b THEN a ELSE b
Min(a, b) == IF a <= b THEN a ELSE b

convertToPercentageUnclamped(coordinate) ==
  LET parsed == parseFloat(coordinate)
      value == IF parsed.nan \/ parsed.value = 0 THEN 0 ELSE parsed.value
  IN (value + 100) * 50

\* convertToPercentage(coordinate) (focal-image.js 65-71): the number before
\* the '%', in hundredths of a percent
convertToPercentage(coordinate) ==
  LET parsed == parseFloat(coordinate)
      value == IF parsed.nan \/ parsed.value = 0 THEN 0 ELSE parsed.value
      percentage == (value + 100) * 50
  IN Max(0, Min(10000, percentage))

\* FocalConfig.defaultPosition: '50% 50%'
defaultPosition == [x |-> 5000, y |-> 5000]

\* `${focalX}_${focalY}`
positionKey(focalX, focalY) == focalX \o <<"_">> \o focalY

\* calculatePosition(focalX, focalY) (focal-image.js 73-88): the position
\* returned, `${x}% ${y}%` as the pair of its numbers, and the cache left
calculatePosition(c, focalX, focalY) ==
  IF focalX = NoAttribute \/ focalY = NoAttribute
  THEN [position |-> defaultPosition, cache |-> c, hit |-> FALSE]
  ELSE LET key == positionKey(focalX, focalY)
       IN IF key \in DOMAIN c
          THEN [position |-> c[key], cache |-> c, hit |-> TRUE]
          ELSE LET position == [x |-> convertToPercentage(focalX),
                                y |-> convertToPercentage(focalY)]
               IN [position |-> position,
                   cache |-> (key :> position) @@ c,
                   hit |-> FALSE]

NoFocalCall == [op |-> "none", focalX |-> NoAttribute, focalY |-> NoAttribute,
                position |-> defaultPosition, hit |-> FALSE]
\* the values of data-focal-x and of data-focal-y of the page's images
FocalXs == {co.text : co \in {c \in Coordinates : c.value \in {-100, 0, 25, 150, -200}}}
FocalYs == {co.text : co \in {c \in Coordinates : c.value \in {-50, 100, 150}}}

\* FocalDOM: cache = new Map()
InitFocal ==
  /\ focalCache = <<>>
  /\ focalLast = NoFocalCall

\* a call of calculator.calculatePosition with the attributes of an image
CalculatePosition(focalX, focalY) ==
  /\ UNCHANGED notFocal
  /\ LET r == calculatePosition(focalCache, focalX, focalY)
     IN /\ Cardinality(DOMAIN r.cache) <= MaxCached
        /\ focalCache' = r.cache
        /\ focalLast' = [op |-> "calculatePosition", focalX |-> focalX,
                         focalY |-> focalY, position |-> r.position, hit |-> r.hit]

\* FocalDOM.cleanup(): cache.clear()
FocalCleanup ==
  /\ UNCHANGED notFocal
  /\ focalCache # <<>>
  /\ focalCache' = <<>>
  /\ focalLast' = NoFocalCall

NextFocal ==
  \/ \E focalX \in FocalXs \cup {NoAttribute}, focalY \in FocalYs \cup {NoAttribute} :
       CalculatePosition(focalX, focalY)
  \/ FocalCleanup

\* ------------------------------------------------------------------------
\* Sticky top bar (top-bar.js)
\* ------------------------------------------------------------------------
\* TopBarConfig.minHeight and TopBarConfig.hysteresis
minHeight == 200
hysteresis == 20

\* window.scrollY values and heights of the .top-bar element
ScrollPositions == {0, 180, 250, 265, 280}
BarHeights == {80, 300}

\* what the template rendered of the header: .header__inner may be absent,
\* and carries header__inner--sticky and header__inner--filled or not
Headers ==
  [present : {TRUE}, sticky : BOOLEAN, filled : BOOLEAN]
    \cup {[present |-> FALSE, sticky |-> FALSE, filled |-> FALSE]}
BarMarkups == [bar : BOOLEAN, header : Headers, height : BarHeights]

\* a number that may be missing: <<n>>, or <<>> for undefined and for NaN
Undefined == <<>>
NaN == <<>>

\* TopBarDOM: cache = new Map([['barHeight', 0], ['lastScroll', 0]])
TopBarDOM == [barHeight |-> 0, lastScroll |-> 0]
getCache(c, key) == IF key \in DOMAIN c THEN <<c[key]>> ELSE Undefined
setCache(c, key, value) == [k \in DOMAIN c \cup {key} |-> IF k = key THEN value ELSE c[k]]

\* Math.max(TopBarConfig.minHeight, height)
mathMax(a, b) == IF b = Undefined THEN NaN ELSE <<Max(a, b[1])>>

\* header?.classList.contains(...): undefined, hence falsy, without a header
classContains(header, class) == header.present /\ header[class]

\* TopBarScroll.handleScroll, read
scrollRead(c, current, isScrolled, header) ==
  [current |-> current,
   height |-> getCache(c, "barHeight"),
   threshold |-> mathMax(minHeight, getCache(c, "barHeight")),
   isScrolled |-> isScrolled,
   isSticky |-> classContains(header, "sticky"),
   lastScroll |-> getCache(c, "lastScroll")]

scrollWriteWithoutThresholdBranch(st, data) ==
  IF ~data.isSticky THEN st
  ELSE IF /\ data.lastScroll # Undefined /\ data.threshold # NaN
          /\ data.current < data.lastScroll[1] - hysteresis
          /\ data.isScrolled
          /\ data.current > data.threshold[1]
    THEN [scrolled |-> FALSE, cache |-> setCache(st.cache, "lastScroll", data.current)]
  ELSE [scrolled |-> IF /\ data.lastScroll # Undefined /\ data.threshold # NaN
                        /\ data.current > data.lastScroll[1]
                        /\ ~data.isScrolled
                        /\ data.current > data.threshold[1]
                       THEN TRUE ELSE st.scrolled,
        cache |-> setCache(st.cache, "lastScroll", data.current)]

scrollWriteAddsWithoutDirection(st, data) ==
  IF ~data.isSticky THEN st
  ELSE IF data.threshold # NaN /\ data.current <= data.threshold[1]
    THEN [scrolled |-> FALSE, cache |-> setCache(st.cache, "lastScroll", data.current)]
  ELSE IF /\ data.lastScroll # Undefined /\ data.threshold # NaN
          /\ data.current < data.lastScroll[1] - hysteresis
          /\ data.isScrolled
          /\ data.current > data.threshold[1]
    THEN [scrolled |-> FALSE, cache |-> setCache(st.cache, "lastScroll", data.current)]
  ELSE [scrolled |-> IF /\ data.threshold # NaN
                        /\ ~data.isScrolled
                        /\ data.current > data.threshold[1]
                       THEN TRUE ELSE st.scrolled,
        cache |-> setCache(st.cache, "lastScroll", data.current)]

scrollWriteWithoutStickyCheck(st, data) ==
  IF data.threshold # NaN /\ data.current <= data.threshold[1]
    THEN [scrolled |-> FALSE, cache |-> setCache(st.cache, "lastScroll", data.current)]
  ELSE IF /\ data.lastScroll # Undefined /\ data.threshold # NaN
          /\ data.current < data.lastScroll[1] - hysteresis
          /\ data.isScrolled
          /\ data.current > data.threshold[1]
    THEN [scrolled |-> FALSE, cache |-> setCache(st.cache, "lastScroll", data.current)]
  ELSE [scrolled |-> IF /\ data.lastScroll # Undefined /\ data.threshold # NaN
                        /\ data.current > data.lastScroll[1]
                        /\ ~data.isScrolled
                        /\ data.current > data.threshold[1]
                       THEN TRUE ELSE st.scrolled,
        cache |-> setCache(st.cache, "lastScroll", data.current)]

\* TopBarScroll.handleScroll, write: st is the scroll modifier of the
\* document element and the cache
scrollWrite(st, data) ==
  IF ~data.isSticky THEN st
  ELSE IF data.threshold # NaN /\ data.current <= data.threshold[1]
    THEN [scrolled |-> FALSE, cache |-> setCache(st.cache, "lastScroll", data.current)]
  ELSE IF /\ data.lastScroll # Undefined /\ data.threshold # NaN
          /\ data.current < data.lastScroll[1] - hysteresis
          /\ data.isScrolled
          /\ data.current > data.threshold[1]
    THEN [scrolled |-> FALSE, cache |-> setCache(st.cache, "lastScroll", data.current)]
  ELSE [scrolled |-> IF /\ data.lastScroll # Undefined /\ data.threshold # NaN
                        /\ data.current > data.lastScroll[1]
                        /\ ~data.isScrolled
                        /\ data.current > data.threshold[1]
                       THEN TRUE ELSE st.scrolled,
        cache |-> setCache(st.cache, "lastScroll", data.current)]

\* TopBarHeight.calculate, read
heightRead(m) ==
  [height |-> m.height,
   isFilled |-> classContains(m.header, "filled"),
   isSticky |-> classContains(m.header, "sticky")]

heightWriteAddsToProperty(st, data) ==
  IF ~data.isSticky /\ data.isFilled THEN st
  ELSE [cache |-> setCache(st.cache, "barHeight", data.height),
        cssVar |-> IF st.cssVar = Undefined THEN <<data.height>>
                   ELSE <<st.cssVar[1] + data.height>>]

\* TopBarHeight.calculate, write: st is the cache and --top-bar-height
heightWrite(st, data) ==
  IF ~data.isSticky /\ data.isFilled THEN st
  ELSE [cache |-> setCache(st.cache, "barHeight", data.height),
        cssVar |-> <<data.height>>]

\* the callbacks frameSequence hands to nextFrame
barCallback(kind, data) == [kind |-> kind, data |-> data]
NoBarData == [none |-> TRUE]
NoBarUpdate == [kind |-> "none", data |-> NoBarData]

InitBar ==
  /\ barMarkup \in BarMarkups
  /\ scrollY = 0
  /\ docScrolled = FALSE
  /\ barCache = TopBarDOM
  /\ barCssVar = Undefined
  /\ barQueue = <<>>
  /\ barRunning = <<>>
  /\ barListeners = {}
  /\ barStarted = FALSE
  /\ barEvents = 0
  /\ barLast = NoBarUpdate
  /\ barDeepest = 0

\* topBarComponent.init: dom.init(), then topBarEvents.init
TopBarInit ==
  /\ UNCHANGED notBar
  /\ ~barStarted
  /\ barRunning = <<>>
  /\ barStarted' = TRUE
  /\ IF barMarkup.bar
       THEN /\ barQueue' = Append(barQueue, barCallback("heightRead", NoBarData))
            /\ barListeners' = {"scroll", "resize"}
       ELSE UNCHANGED <<barQueue, barListeners>>
  /\ barLast' = NoBarUpdate
  /\ UNCHANGED barDeepest
  /\ UNCHANGED <<barMarkup, scrollY, docScrolled, barCache, barCssVar, barRunning,
                 barEvents>>

\* the window scrolls; scrollHandler calls scroll.handleScroll()
BarScroll(y) ==
  /\ UNCHANGED notBar
  /\ barRunning = <<>>
  /\ barEvents < MaxBarEvents
  /\ barEvents' = barEvents + 1
  /\ scrollY' = y
  /\ barQueue' = IF "scroll" \in barListeners
                   THEN Append(barQueue, barCallback("scrollRead", NoBarData))
                   ELSE barQueue
  /\ barLast' = NoBarUpdate
  /\ UNCHANGED barDeepest
  /\ UNCHANGED <<barMarkup, docScrolled, barCache, barCssVar, barRunning, barListeners,
                 barStarted>>

\* the window is resized and the bar's height changes; resizeHandler calls
\* height.recalculate()
BarResize(h) ==
  /\ UNCHANGED notBar
  /\ barRunning = <<>>
  /\ barEvents < MaxBarEvents
  /\ barEvents' = barEvents + 1
  /\ barMarkup' = [barMarkup EXCEPT !.height = h]
  /\ barQueue' = IF "resize" \in barListeners
                   THEN Append(barQueue, barCallback("heightRead", NoBarData))
                   ELSE barQueue
  /\ barLast' = NoBarUpdate
  /\ UNCHANGED barDeepest
  /\ UNCHANGED <<scrollY, docScrolled, barCache, barCssVar, barRunning, barListeners,
                 barStarted>>

\* the host begins a frame with the callbacks queued so far
BarBeginFrame ==
  /\ UNCHANGED notBar
  /\ barRunning = <<>>
  /\ barQueue # <<>>
  /\ barRunning' = barQueue
  /\ barQueue' = <<>>
  /\ barLast' = NoBarUpdate
  /\ UNCHANGED barDeepest
  /\ UNCHANGED <<barMarkup, scrollY, docScrolled, barCache, barCssVar, barListeners,
                 barStarted, barEvents>>

\* the host runs the next callback of the frame
BarRunCallback ==
  /\ UNCHANGED notBar
  /\ barRunning # <<>>
  /\ barRunning' = Tail(barRunning)
  /\ LET cb == Head(barRunning) IN
       CASE cb.kind = "scrollRead" ->
              LET data == scrollRead(barCache, scrollY, docScrolled, barMarkup.header)
              IN /\ barQueue' = Append(barQueue, barCallback("scrollWrite", data))
                 /\ barLast' = barCallback("scrollRead", data)
                 /\ UNCHANGED <<docScrolled, barCache, barCssVar, barDeepest>>
         [] cb.kind = "scrollWrite" ->
              LET after == scrollWrite([scrolled |-> docScrolled, cache |-> barCache],
                                       cb.data)
              IN /\ docScrolled' = after.scrolled
                 /\ barCache' = after.cache
                 /\ barLast' = cb
                 /\ barDeepest' = IF ~after.scrolled THEN 0
                                  ELSE IF ~docScrolled THEN cb.data.current
                                  ELSE IF cb.data.isSticky
                                    THEN Max(barDeepest, cb.data.current)
                                  ELSE barDeepest
                 /\ UNCHANGED <<barQueue, barCssVar>>
         [] cb.kind = "heightRead" ->
              LET data == heightRead(barMarkup)
              IN /\ barQueue' = Append(barQueue, barCallback("heightWrite", data))
                 /\ barLast' = barCallback("heightRead", data)
                 /\ UNCHANGED <<docScrolled, barCache, barCssVar, barDeepest>>
         [] cb.kind = "heightWrite" ->
              LET after == heightWrite([cache |-> barCache, cssVar |-> barCssVar],
                                       cb.data)
              IN /\ barCache' = after.cache
                 /\ barCssVar' = after.cssVar
                 /\ barLast' = cb
                 /\ UNCHANGED <<barQueue, docScrolled, barDeepest>>
  /\ UNCHANGED <<barMarkup, scrollY, barListeners, barStarted, barEvents>>

\* topBarComponent.destroy: events.destroy(), dom.cleanup()
TopBarDestroy ==
  /\ UNCHANGED notBar
  /\ barStarted
  /\ barMarkup.bar
  /\ barRunning = <<>>
  /\ barListeners # {}
  /\ barListeners' = {}
  /\ barCache' = <<>>
  /\ barLast' = NoBarUpdate
  /\ UNCHANGED barDeepest
  /\ UNCHANGED <<barMarkup, scrollY, docScrolled, barCssVar, barQueue, barRunning,
                 barStarted, barEvents>>

NextBar ==
  \/ TopBarInit
  \/ \E y \in ScrollPositions : BarScroll(y)
  \/ \E h \in BarHeights : BarResize(h)
  \/ BarBeginFrame
  \/ BarRunCallback
  \/ TopBarDestroy

\* ------------------------------------------------------------------------
\* Search overlay (search component: SearchDOM, SearchUrlHandler,
\* SearchRenderer, SearchProcessor, searchEvents, searchComponent)
\* ------------------------------------------------------------------------
\* url.searchParams.get('q'): null without the parameter, or <<its text>>
NoQuery == <<>>
Queries == {NoQuery, <<"">>, <<"tent">>}
\* the texts input.value takes: as rendered, as typed, or a query
InputValues == {"", "tent", "typed"}

\* what the template rendered: #search, .search__input (inside a parent),
\* #header-opener-search, .search__reset, and the input's value attribute
SearchMarkups ==
  [form : BOOLEAN, input : BOOLEAN, opener : BOOLEAN, reset : BOOLEAN,
   value : {"", "typed"}]

\* SearchDOM.init: the form and the input are required
searchDomInit(m) == m.form /\ m.input

\* the callbacks frameSequence hands to nextFrame
searchCallback(kind, data) == [kind |-> kind, data |-> data]
NoSearchData == [none |-> TRUE]

updateClearButtonNever(q, hasInput) == q

\* SearchRenderer.updateClearButton: q is the queue of the next frame
updateClearButton(q, hasInput) ==
  IF ~hasInput THEN q
  ELSE Append(q, searchCallback("updateRead", NoSearchData))

\* SearchRenderer.clearInput
clearInput(q, hasInput) ==
  IF ~hasInput THEN q
  ELSE Append(q, searchCallback("clearRead", NoSearchData))

\* SearchRenderer.autoFillInput
autoFillInput(q, hasInput, query) ==
  IF ~hasInput \/ query = NoQuery THEN q
  ELSE Append(q, searchCallback("autoFillRead", [query |-> query[1]]))

\* the read closures: the data they hand to their write
searchRead(cb, value) ==
  CASE cb.kind = "updateRead" -> searchCallback("updateWrite", [expose |-> value # ""])
    [] cb.kind = "clearRead" -> searchCallback("clearWrite", NoSearchData)
    [] cb.kind = "focusRead" -> searchCallback("focusWrite", NoSearchData)
    [] cb.kind = "autoFillRead" -> searchCallback("autoFillWrite", cb.data)

\* the write closures: st is the input's value, its focus, the 'filled'
\* class of its parent and the queue of the next frame
searchWrite(cb, st, hasInput) ==
  CASE cb.kind = "updateWrite" -> [st EXCEPT !.filled = cb.data.expose]
    [] cb.kind = "clearWrite" ->
         [st EXCEPT !.value = "", !.focused = TRUE,
                    !.queue = updateClearButton(st.queue, hasInput)]
    [] cb.kind = "focusWrite" ->
         [st EXCEPT !.focused = TRUE, !.queue = updateClearButton(st.queue, hasInput)]
    [] cb.kind = "autoFillWrite" ->
         [st EXCEPT !.value = cb.data.query,
                    !.queue = updateClearButton(st.queue, hasInput)]

InitSearch ==
  /\ srMarkup \in SearchMarkups
  /\ srQuery \in Queries
  /\ srValue = srMarkup.value
  /\ srFilled = FALSE
  /\ srFocused = FALSE
  /\ srElements = FALSE
  /\ srQueue = <<>>
  /\ srRunning = <<>>
  /\ srTimers = 0
  /\ srListening = FALSE
  /\ srStarted = FALSE
  /\ srDestroyed = FALSE
  /\ srUserEvents = 0
  /\ srLocation = "page"
  /\ srLast = "none"

\* searchComponent.init
SearchInit ==
  /\ UNCHANGED notSearch
  /\ ~srStarted
  /\ srStarted' = TRUE
  /\ srLast' = "init"
  /\ IF searchDomInit(srMarkup)
       THEN /\ srElements' = TRUE
            /\ srQueue' = IF srQuery # NoQuery /\ srQuery[1] # ""
                            THEN autoFillInput(srQueue, TRUE, srQuery)
                            ELSE srQueue
            /\ srListening' = TRUE
       ELSE \* dom.init() has filled the Map before it reports the failure
            /\ srElements' = TRUE
            /\ UNCHANGED <<srQueue, srListening>>
  /\ UNCHANGED <<srMarkup, srQuery, srValue, srFilled, srFocused, srRunning, srTimers,
                 srDestroyed, srUserEvents, srLocation>>

\* a user event reaches the page while no frame is being painted
searchUserEvent ==
  /\ srRunning = <<>>
  /\ srLocation = "page"
  /\ srUserEvents < MaxSearchEvents
  /\ srUserEvents' = srUserEvents + 1

\* the user edits the input: 'input' event, SearchProcessor.handleInput
SearchInput(text) ==
  /\ UNCHANGED notSearch
  /\ searchUserEvent
  /\ srMarkup.input
  /\ text # srValue
  /\ srValue' = text
  /\ srQueue' = IF srListening
                  THEN updateClearButton(srQueue, srElements /\ srMarkup.input)
                  ELSE srQueue
  /\ srLast' = "input"
  /\ UNCHANGED <<srMarkup, srQuery, srFilled, srFocused, srElements, srRunning, srTimers,
                 srListening, srStarted, srDestroyed, srLocation>>

\* click on .search__reset: SearchProcessor.handleClear
SearchClickReset ==
  /\ UNCHANGED notSearch
  /\ searchUserEvent
  /\ srMarkup.reset
  /\ srQueue' = IF srListening /\ srElements
                  THEN clearInput(srQueue, srMarkup.input)
                  ELSE srQueue
  /\ srLast' = "clear"
  /\ UNCHANGED <<srMarkup, srQuery, srValue, srFilled, srFocused, srElements, srRunning,
                 srTimers, srListening, srStarted, srDestroyed, srLocation>>

\* click on #header-opener-search: SearchProcessor.handleFocus, which
\* starts the focus delay of SearchRenderer.focusInput
SearchClickOpener ==
  /\ UNCHANGED notSearch
  /\ searchUserEvent
  /\ srMarkup.opener
  /\ srTimers' = IF srListening /\ srElements /\ srMarkup.input
                   THEN srTimers + 1 ELSE srTimers
  /\ srLast' = "opener"
  /\ UNCHANGED <<srMarkup, srQuery, srValue, srFilled, srFocused, srElements, srQueue,
                 srRunning, srListening, srStarted, srDestroyed, srLocation>>

\* the focus delay elapses: frameSequence(read, write)
SearchFocusTimeout ==
  /\ UNCHANGED notSearch
  /\ srRunning = <<>>
  /\ srLocation = "page"
  /\ srTimers > 0
  /\ srTimers' = srTimers - 1
  /\ srQueue' = Append(srQueue, searchCallback("focusRead", NoSearchData))
  /\ srLast' = "focusTimeout"
  /\ UNCHANGED <<srMarkup, srQuery, srValue, srFilled, srFocused, srElements, srRunning,
                 srListening, srStarted, srDestroyed, srUserEvents, srLocation>>

\* the form is submitted: SearchProcessor.handleSubmit; the form's action
\* is a route, and the value has no surrounding blanks to trim
SearchSubmit ==
  /\ UNCHANGED notSearch
  /\ searchUserEvent
  /\ srMarkup.form
  /\ srLocation' = IF srListening /\ srElements /\ srMarkup.input /\ srValue # ""
                     THEN srValue ELSE srLocation
  /\ srLast' = "submit"
  /\ UNCHANGED <<srMarkup, srQuery, srValue, srFilled, srFocused, srElements, srQueue,
                 srRunning, srTimers, srListening, srStarted, srDestroyed>>

\* the host begins a frame with the callbacks queued so far
SearchBeginFrame ==
  /\ UNCHANGED notSearch
  /\ srLocation = "page"
  /\ srRunning = <<>>
  /\ srQueue # <<>>
  /\ srRunning' = srQueue
  /\ srQueue' = <<>>
  /\ srLast' = "frame"
  /\ UNCHANGED <<srMarkup, srQuery, srValue, srFilled, srFocused, srElements, srTimers,
                 srListening, srStarted, srDestroyed, srUserEvents, srLocation>>

\* the host runs the next callback of the frame
SearchRunCallback ==
  /\ UNCHANGED notSearch
  /\ srRunning # <<>>
  /\ srRunning' = Tail(srRunning)
  /\ LET cb == Head(srRunning) IN
       IF cb.kind \in {"updateRead", "clearRead", "focusRead", "autoFillRead"}
         THEN /\ srQueue' = Append(srQueue, searchRead(cb, srValue))
              /\ UNCHANGED <<srValue, srFilled, srFocused>>
         ELSE LET after == searchWrite(cb, [value |-> srValue, focused |-> srFocused,
                                           filled |-> srFilled, queue |-> srQueue],
                                       srElements /\ srMarkup.input)
              IN /\ srValue' = after.value
                 /\ srFocused' = after.focused
                 /\ srFilled' = after.filled
                 /\ srQueue' = after.queue
  /\ srLast' = Head(srRunning).kind
  /\ UNCHANGED <<srMarkup, srQuery, srElements, srTimers, srListening, srStarted,
                 srDestroyed, srUserEvents, srLocation>>

\* searchComponent.destroy, the teardown initSearch registers
SearchDestroy ==
  /\ UNCHANGED notSearch
  /\ srStarted
  /\ searchDomInit(srMarkup)
  /\ ~srDestroyed
  /\ srRunning = <<>>
  /\ srDestroyed' = TRUE
  /\ srListening' = FALSE
  /\ srElements' = FALSE
  /\ srLast' = "destroy"
  /\ UNCHANGED <<srMarkup, srQuery, srValue, srFilled, srFocused, srQueue, srRunning,
                 srTimers, srStarted, srUserEvents, srLocation>>

NextSearch ==
  \/ SearchInit
  \/ \E text \in InputValues : SearchInput(text)
  \/ SearchClickReset
  \/ SearchClickOpener
  \/ SearchFocusTimeout
  \/ SearchSubmit
  \/ SearchBeginFrame
  \/ SearchRunCallback
  \/ SearchDestroy

\* ------------------------------------------------------------------------
\* Widget initialization against the page's markup: what every component's
\* init() attaches and returns (carousel.js 296-444, top-bar.js 207-246,
\* header.js 150-426, image-loading.js 215-257, focal-image.js 167-212,
\* search component 603-648)
\* ------------------------------------------------------------------------
\* the .carousel elements of the page: each has a .carousel__container or not
RECURSIVE CarouselLists(_)
CarouselLists(n) ==
  IF n = 0 THEN {<<>>}
  ELSE CarouselLists(n - 1)
         \cup {Append(l, c) : l \in {k \in CarouselLists(n - 1) : Len(k) = n - 1},
                              c \in BOOLEAN}

\* what the template rendered: the carousels, whether checkCarousel() lets
\* them mount, and the elements the other widgets look up
PageMarkups ==
  [carousels : CarouselLists(MaxCarousels), mountable : BOOLEAN, topBar : BOOLEAN,
   header : BOOLEAN, openers : BOOLEAN, wrappers : BOOLEAN, focalImages : BOOLEAN,
   form : BOOLEAN, input : BOOLEAN]

\* what an init() hands back: a teardown or null, and what it has attached
aborted == [teardown |-> FALSE, attached |-> {}, instances |-> {}]
handedBack(kinds) == [teardown |-> TRUE, attached |-> kinds, instances |-> {}]

CarouselInstanceWithoutContainerCheck(container, mountable) ==
  handedBack({"mediaQuery"} \cup IF mountable THEN {"engine", "listener"} ELSE {})

\* CarouselInstance(carousel) and its init(): null without a viewport;
\* else the media-query watcher and, if checkCarousel(), the mounted engine
CarouselInstance(container, mountable) ==
  IF ~container THEN aborted
  ELSE handedBack({"mediaQuery"} \cup IF mountable THEN {"engine", "listener"} ELSE {})

\* CarouselComponent.init: null without any .carousel; else one instance per
\* carousel, and the teardowns of those that returned one
CarouselComponent(m) ==
  IF m.carousels = <<>> THEN aborted
  ELSE LET inst(i) == CarouselInstance(m.carousels[i], m.mountable)
       IN [teardown |-> TRUE,
           attached |-> UNION {{<<i, k>> : k \in inst(i).attached} :
                                 i \in DOMAIN m.carousels},
           instances |-> {i \in DOMAIN m.carousels : inst(i).teardown}]

\* topBarComponent.init: scroll and resize listeners, or null without .top-bar
topBarComponent(m) ==
  IF ~m.topBar THEN aborted ELSE handedBack({"listener", "frame"})

\* headerComponent.init: a ResizeObserver, or null without .header
headerComponent(m) ==
  IF ~m.header THEN aborted ELSE handedBack({"observer", "frame"})

\* outsideHandler().init: nothing without a menu or search opener
outsideHandler(m) ==
  IF ~m.openers THEN {} ELSE {"listener", "mediaQuery"}

\* imageComponent.init: an IntersectionObserver, or null without .image-wrapper
imageComponent(m) ==
  IF ~m.wrappers THEN aborted ELSE handedBack({"observer"})

\* focalComponent.init: an IntersectionObserver, or null without .focal-image
focalComponent(m) ==
  IF ~m.focalImages THEN aborted ELSE handedBack({"observer"})

\* searchComponent.init: document listeners, or null without form or input
searchComponent(m) ==
  IF ~searchDomInit([form |-> m.form, input |-> m.input]) THEN aborted
  ELSE handedBack({"listener"})

\* init<Widget>(): the component's init(), and for the header the menu's
componentInit(w, m) ==
  CASE w = "carousel" ->
         LET r == CarouselComponent(m)
         IN [r EXCEPT !.attached = {<<"carousel", p[1], p[2]>> : p \in r.attached}]
    [] w = "topBar" ->
         LET r == topBarComponent(m)
         IN [r EXCEPT !.attached = {<<"topBar", 0, k>> : k \in r.attached}]
    [] w = "header" ->
         LET r == headerComponent(m)
         IN [r EXCEPT !.attached =
               {<<"header", 0, k>> : k \in r.attached}
                 \cup IF r.teardown THEN {<<"menu", 0, k>> : k \in outsideHandler(m)}
                                    ELSE {}]
    [] w = "imageLoading" ->
         LET r == imageComponent(m)
         IN [r EXCEPT !.attached = {<<"imageLoading", 0, k>> : k \in r.attached}]
    [] w = "focalImage" ->
         LET r == focalComponent(m)
         IN [r EXCEPT !.attached = {<<"focalImage", 0, k>> : k \in r.attached}]
    [] w = "search" ->
         LET r == searchComponent(m)
         IN [r EXCEPT !.attached = {<<"search", 0, k>> : k \in r.attached}]

InitPage ==
  /\ pgMarkup \in PageMarkups
  /\ pgInited = {}
  /\ pgAttached = {}
  /\ pgInstances = {}
  /\ pgRegistered = [w \in Widgets |-> <<>>]

\* the module of widget w runs: init<Widget>()
PageInitWidget(w) ==
  /\ UNCHANGED notPage
  /\ w \notin pgInited
  /\ pgInited' = pgInited \cup {w}
  /\ LET r == componentInit(w, pgMarkup)
     IN /\ pgAttached' = pgAttached \cup r.attached
        /\ pgInstances' = pgInstances \cup r.instances
        /\ pgRegistered' =
             [pgRegistered EXCEPT ![w] = IF r.teardown THEN registeredBy(w) ELSE <<>>]
  /\ UNCHANGED pgMarkup

NextPage == \E w \in Widgets : PageInitWidget(w)

\* ------------------------------------------------------------------------
\* The debounced breakpoint watcher of a carousel, with time
\* (carousel.js 375-390, utils.js 11-17)
\* ------------------------------------------------------------------------
\* CarouselConfig.delay, in ms
delay == 250

\* the amounts of time, in ms, that pass between two events
Advances == {100, 150, 250}

debounceWithoutClear(timeouts, now, wait) == timeouts \cup {now + wait}

\* debounce(func, wait), one call of the debounced function: clearTimeout,
\* then setTimeout; timeouts is the set of the deadlines pending
debounce(timeouts, now, wait) == {now + wait}

\* the timeouts that are due
due(timeouts, now) == {d \in timeouts : d <= now}

InitBreakpoint ==
  /\ bpSlides \in SlideCounts
  /\ bpDesktop \in BOOLEAN
  /\ bpNow = 0
  /\ bpTimeouts = {}
  /\ bpMounted = checkCarousel("mql", bpDesktop, bpSlides)
  /\ bpChanges = <<>>
  /\ bpEvaluations = <<>>

\* the viewport crosses the breakpoint, some time after it last did: 'change'
\* calls handleMediaQuery
BreakpointChange ==
  /\ UNCHANGED notBreakpoint
  /\ bpNow < MaxTime
  /\ IF bpChanges = <<>> THEN TRUE ELSE bpChanges[Len(bpChanges)] < bpNow
  /\ due(bpTimeouts, bpNow) = {}
  /\ bpDesktop' = ~bpDesktop
  /\ bpTimeouts' = debounce(bpTimeouts, bpNow, delay)
  /\ bpChanges' = Append(bpChanges, bpNow)
  /\ UNCHANGED <<bpSlides, bpNow, bpMounted, bpEvaluations>>

\* time passes, up to the next deadline
BreakpointAdvance(ms) ==
  /\ UNCHANGED notBreakpoint
  /\ bpNow < MaxTime
  /\ due(bpTimeouts, bpNow) = {}
  /\ bpNow' = IF \E d \in bpTimeouts : d < bpNow + ms
                THEN CHOOSE d \in bpTimeouts : \A e \in bpTimeouts : d <= e
                ELSE bpNow + ms
  /\ UNCHANGED <<bpSlides, bpDesktop, bpTimeouts, bpMounted, bpChanges, bpEvaluations>>

\* a timeout fires: debounceHandler evaluates checkCarousel() and mounts or
\* destroys
BreakpointTimeout ==
  /\ UNCHANGED notBreakpoint
  /\ \E d \in due(bpTimeouts, bpNow) :
       /\ bpTimeouts' = bpTimeouts \ {d}
       /\ bpMounted' = checkCarousel("mql", bpDesktop, bpSlides)
       /\ bpEvaluations' = Append(bpEvaluations,
            [at |-> bpNow, changes |-> Len(bpChanges), desktop |-> bpDesktop,
             mounted |-> checkCarousel("mql", bpDesktop, bpSlides)])
  /\ UNCHANGED <<bpSlides, bpDesktop, bpNow, bpChanges>>

NextBreakpoint ==
  \/ BreakpointChange
  \/ \E ms \in Advances : BreakpointAdvance(ms)
  \/ BreakpointTimeout

\* ------------------------------------------------------------------------
\* Focal images: FocalRenderer, FocalProcessor, focalObserver and
\* focalComponent on one .focal-image element (focal-image.js 94-201)
\* ------------------------------------------------------------------------
\* the element as the template rendered it: data-focal-x, data-focal-y and
\* data-focal-processed; no object-position written yet
NoPosition == [none |-> TRUE]
FocalImages ==
  [focalX : {<<"0", ".", "2", "5">>, <<"-", "1">>, NoAttribute},
   focalY : {<<"1", ".", "5">>, <<"0", ".", "5">>, NoAttribute},
   processed : BOOLEAN, position : {NoPosition}, opacity : {FALSE}, writes : {0}]

\* the isIntersecting flags of the entries one callback carries for the
\* element: an entry per change recorded, so that they alternate
IntersectionLists ==
  {flags \in UNION {[1..n -> BOOLEAN] : n \in 1..MaxEntries} :
     \A k \in 1..(Len(flags) - 1) : flags[k] # flags[k + 1]}

\* FocalRenderer.applyFocalPoint(image): st is the element, the position
\* cache and the callbacks queued for the next frame
applyFocalPoint(st) ==
  IF st.image.processed THEN st
  ELSE IF st.image.focalX = NoAttribute \/ st.image.focalY = NoAttribute THEN st
  ELSE LET r == calculatePosition(st.cache, st.image.focalX, st.image.focalY)
       IN [st EXCEPT !.cache = r.cache,
                     !.queue = Append(@, [kind |-> "read", position |-> r.position])]

\* the write of applyFocalPoint
focalWrite(image, position) ==
  [image EXCEPT !.position = position, !.opacity = TRUE, !.processed = TRUE,
                !.writes = @ + 1]

\* one entry of focalObserver.observerCallback: st also says whether the
\* element is still observed
focalEntry(st, isIntersecting) ==
  IF ~isIntersecting THEN st
  ELSE [applyFocalPoint([image |-> st.image, cache |-> st.cache,
                         queue |-> st.queue, observed |-> st.observed])
          EXCEPT !.observed = FALSE]

RECURSIVE focalObserverCallback(_, _)
focalObserverCallback(st, flags) ==
  IF flags = <<>> THEN st
  ELSE focalObserverCallback(focalEntry(st, Head(flags)), Tail(flags))

InitFocalImages ==
  /\ fiImage \in FocalImages
  /\ fiCache = <<>>
  /\ fiObserver = FALSE
  /\ fiObserved = FALSE
  /\ fiQueue = <<>>
  /\ fiRunning = <<>>
  /\ fiStarted = FALSE
  /\ fiLast = "none"

\* focalComponent.init: observerManager.init(), processor.processImages
FocalImagesInit ==
  /\ UNCHANGED notFocalImages
  /\ ~fiStarted
  /\ fiStarted' = TRUE
  /\ fiObserver' = TRUE
  /\ fiObserved' = ~fiImage.processed
  /\ fiLast' = "init"
  /\ UNCHANGED <<fiImage, fiCache, fiQueue, fiRunning>>

\* the watcher delivers entries for the element it watches
FocalIntersection(flags) ==
  /\ UNCHANGED notFocalImages
  /\ fiObserved
  /\ fiRunning = <<>>
  /\ LET st == focalObserverCallback(
                 [image |-> fiImage, cache |-> fiCache, queue |-> fiQueue,
                  observed |-> fiObserved], flags)
     IN /\ fiImage' = st.image
        /\ fiCache' = st.cache
        /\ fiQueue' = st.queue
        /\ fiObserved' = st.observed
  /\ fiLast' = "intersection"
  /\ UNCHANGED <<fiObserver, fiRunning, fiStarted>>

\* the host begins a frame with the callbacks queued so far
FocalBeginFrame ==
  /\ UNCHANGED notFocalImages
  /\ fiRunning = <<>>
  /\ fiQueue # <<>>
  /\ fiRunning' = fiQueue
  /\ fiQueue' = <<>>
  /\ fiLast' = "frame"
  /\ UNCHANGED <<fiImage, fiCache, fiObserver, fiObserved, fiStarted>>

\* the host runs the next callback of the frame: a read hands its data to
\* its write, a write sets object-position, opacity and the processed mark
FocalRunCallback ==
  /\ UNCHANGED notFocalImages
  /\ fiRunning # <<>>
  /\ fiRunning' = Tail(fiRunning)
  /\ LET cb == Head(fiRunning) IN
       IF cb.kind = "read"
         THEN /\ fiQueue' = Append(fiQueue, [cb EXCEPT !.kind = "write"])
              /\ UNCHANGED fiImage
         ELSE /\ fiImage' = focalWrite(fiImage, cb.position)
              /\ UNCHANGED fiQueue
  /\ fiLast' = Head(fiRunning).kind
  /\ UNCHANGED <<fiCache, fiObserver, fiObserved, fiStarted>>

\* focalComponent.destroy: observer.destroy(), dom.cleanup()
FocalImagesDestroy ==
  /\ UNCHANGED notFocalImages
  /\ fiStarted
  /\ fiObserver
  /\ fiRunning = <<>>
  /\ fiObserver' = FALSE
  /\ fiObserved' = FALSE
  /\ fiCache' = <<>>
  /\ fiLast' = "destroy"
  /\ UNCHANGED <<fiImage, fiQueue, fiRunning, fiStarted>>

NextFocalImages ==
  \/ FocalImagesInit
  \/ \E flags \in IntersectionLists : FocalIntersection(flags)
  \/ FocalBeginFrame
  \/ FocalRunCallback
  \/ FocalImagesDestroy

\* ------------------------------------------------------------------------
\* Dot indicators of one carousel: CarouselDotsRenderer and the engine
\* events CarouselEvents.init subscribes to (carousel.js 95-126, 249-255)
\* ------------------------------------------------------------------------
\* what the template rendered: the slides, the dots (as many as slides,
\* fewer, or none), and whether it marked the first dot as the current one
DotMarkups ==
  [slides : SlideCounts, dots : DotCounts \cup SlideCounts, marked : BOOLEAN]
\* the events of the engine that updateAll is subscribed to
EngineEvents == {"select", "init", "reInit"}
\* the indexes of the dots, as Array.forEach counts them
dotIndexes(m) == 0..(m.dots - 1)

updateDotsWriteAddsOnly(st, data) ==
  [class |-> st.class \cup {i \in 0..(data.dots - 1) : i = data.index},
   current |-> st.current \cup {i \in 0..(data.dots - 1) : i = data.index}]

updateDotsWriteKeepsMarked(st, data) ==
  IF st.current # {} THEN st
  ELSE [class |-> st.class \cup {i \in 0..(data.dots - 1) : i = data.index},
        current |-> st.current \cup {i \in 0..(data.dots - 1) : i = data.index}]

\* the write of updateDots: st is the dots that carry the selected class and
\* the dots that carry aria-current="true"
updateDotsWrite(st, data) ==
  [class |-> (st.class \cup {i \in 0..(data.dots - 1) : i = data.index})
               \ {i \in 0..(data.dots - 1) : i # data.index},
   current |-> (st.current \cup {i \in 0..(data.dots - 1) : i = data.index})
                 \ {i \in 0..(data.dots - 1) : i # data.index}]

InitDots ==
  /\ dtMarkup \in DotMarkups
  /\ dtMounted = FALSE
  /\ dtSelected = 0
  /\ dtClass = IF dtMarkup.marked THEN dotIndexes(dtMarkup) \cap {0} ELSE {}
  /\ dtCurrent = dtClass
  /\ dtQueue = <<>>
  /\ dtRunning = <<>>
  /\ dtEvents = 0
  /\ dtLast = [kind |-> "none", index |-> 0]
  /\ dtPending = 0

\* initCarousel: the engine is constructed and starts at its first snap
DotsMount ==
  /\ UNCHANGED notDots
  /\ ~dtMounted
  /\ dtMounted' = TRUE
  /\ dtSelected' = 0
  /\ dtLast' = [kind |-> "mount", index |-> 0]
  /\ UNCHANGED <<dtMarkup, dtClass, dtCurrent, dtQueue, dtRunning, dtEvents, dtPending>>

\* the engine emits an event updateAll listens to; 'select' comes with a new
\* selected snap (a click on a button or a dot, a drag, an autoplay tick)
EngineEmit(event, index) ==
  /\ UNCHANGED notDots
  /\ dtMounted
  /\ dtEvents < MaxDotEvents
  /\ dtEvents' = dtEvents + 1
  /\ IF event = "select" THEN index # dtSelected ELSE index = dtSelected
  /\ dtSelected' = index
  /\ dtQueue' = IF CarouselDotsRenderer(dtMarkup)
                THEN Append(dtQueue, [kind |-> "read", index |-> 0])
                ELSE dtQueue
  /\ dtLast' = [kind |-> event, index |-> index]
  /\ dtPending' = Max(dtPending, Len(dtQueue') + Len(dtRunning))
  /\ UNCHANGED <<dtMarkup, dtMounted, dtClass, dtCurrent, dtRunning>>

\* the host begins a frame with the callbacks queued so far
DotsBeginFrame ==
  /\ UNCHANGED notDots
  /\ dtRunning = <<>>
  /\ dtQueue # <<>>
  /\ dtRunning' = dtQueue
  /\ dtQueue' = <<>>
  /\ dtLast' = [kind |-> "frame", index |-> 0]
  /\ UNCHANGED <<dtMarkup, dtMounted, dtSelected, dtClass, dtCurrent, dtEvents,
                 dtPending>>

\* the host runs the next callback of the frame: the read of updateDots
\* captures the selected snap and hands it to the write
DotsRunCallback ==
  /\ UNCHANGED notDots
  /\ dtRunning # <<>>
  /\ dtRunning' = Tail(dtRunning)
  /\ LET cb == Head(dtRunning) IN
       IF cb.kind = "read"
         THEN /\ dtQueue' = Append(dtQueue, [kind |-> "write", index |-> dtSelected])
              /\ dtLast' = [kind |-> "read", index |-> dtSelected]
              /\ UNCHANGED <<dtClass, dtCurrent>>
         ELSE LET st == updateDotsWrite([class |-> dtClass, current |-> dtCurrent],
                                        [index |-> cb.index, dots |-> dtMarkup.dots])
              IN /\ dtClass' = st.class
                 /\ dtCurrent' = st.current
                 /\ dtLast' = [kind |-> "write", index |-> cb.index]
                 /\ UNCHANGED dtQueue
  /\ UNCHANGED <<dtMarkup, dtMounted, dtSelected, dtEvents, dtPending>>

NextDots ==
  \/ DotsMount
  \/ \E event \in EngineEvents, index \in 0..(dtMarkup.slides - 1) :
       EngineEmit(event, index)
  \/ DotsBeginFrame
  \/ DotsRunCallback

\* ------------------------------------------------------------------------
\* Header height: HeaderDOM, setHeaderHeight, headerEventManager and
\* headerComponent (header.js 49-179) on a page with a .header
\* ------------------------------------------------------------------------
\* heights of the .header element, and of the preview bar when there is one
HeaderHeights == {60, 90}
PreviewHeights == {0, 40}

\* getDimensions(element).height: 0 without an element
getDimensionsHeight(present, height) == IF present THEN height ELSE 0

\* setHeaderHeight.calculate, read: elements is what HeaderDOM holds
headerRead(elements, height, preview) ==
  [headerHeight |-> getDimensionsHeight("header" \in elements, height),
   previewHeight |-> getDimensionsHeight("preview" \in elements, preview)]

\* setCssVar(property, value, element): an undefined element is replaced by
\* the default, document.documentElement, which is also what 'doc' names
setCssVar(cssVars, property, value, element) ==
  [cssVars EXCEPT ![property] = <<value>>]

\* setHeaderHeight.calculate, write: st is the custom properties of the
\* document element and HeaderDOM's cache
headerWrite(st, data, elements) ==
  LET doc == IF "doc" \in elements THEN "doc" ELSE "undefined"
      first == [cssVars |-> setCssVar(st.cssVars, "headerHeight", data.headerHeight, doc),
                cache |-> [st.cache EXCEPT !.headerHeight = <<data.headerHeight>>]]
  IN IF "preview" \notin elements \/ data.previewHeight <= 0 THEN first
     ELSE [cssVars |-> setCssVar(first.cssVars, "previewHeight", data.previewHeight, doc),
           cache |-> [first.cache EXCEPT !.previewHeight = <<data.previewHeight>>]]

\* calculate(): nothing without the header element, else frameSequence
calculate(elements, queue) ==
  IF "header" \notin elements THEN queue
  ELSE Append(queue, [kind |-> "read", data |-> <<>>])

InitHeader ==
  /\ hdHeight \in HeaderHeights
  /\ hdPreview \in PreviewHeights
  /\ hdElements = {}
  /\ hdCache = [headerHeight |-> <<0>>, previewHeight |-> <<0>>]
  /\ hdCssVars = [headerHeight |-> Undefined, previewHeight |-> Undefined]
  /\ hdObserver = FALSE
  /\ hdQueue = <<>>
  /\ hdRunning = <<>>
  /\ hdStarted = FALSE
  /\ hdDestroyed = FALSE
  /\ hdEvents = 0
  /\ hdAtTeardown = hdCssVars
  /\ hdLast = "none"

\* headerComponent.init: dom.init(header), eventManager.init()
HeaderInit ==
  /\ UNCHANGED notHeader
  /\ ~hdStarted
  /\ hdRunning = <<>>
  /\ hdStarted' = TRUE
  /\ hdElements' = {"doc", "header"} \cup (IF hdPreview > 0 THEN {"preview"} ELSE {})
  /\ hdQueue' = calculate(hdElements', hdQueue)
  /\ hdObserver' = TRUE
  /\ hdLast' = "init"
  /\ UNCHANGED <<hdHeight, hdPreview, hdCache, hdCssVars, hdRunning, hdDestroyed,
                 hdEvents, hdAtTeardown>>

\* the header is resized to height h; the resize observer, while it watches,
\* hands resizeObserverHandler to the next frame when the window's width has
\* changed as well (debounceTime 0, width tracking on)
HeaderResize(h, widthChanged) ==
  /\ UNCHANGED notHeader
  /\ hdStarted
  /\ hdRunning = <<>>
  /\ hdEvents < MaxHeaderEvents
  /\ hdEvents' = hdEvents + 1
  /\ hdHeight' = h
  /\ hdQueue' = IF hdObserver /\ widthChanged
                THEN Append(hdQueue, [kind |-> "resized", data |-> <<>>])
                ELSE hdQueue
  /\ hdLast' = "resize"
  /\ UNCHANGED <<hdPreview, hdElements, hdCache, hdCssVars, hdObserver, hdRunning,
                 hdStarted, hdDestroyed, hdAtTeardown>>

\* the host begins a frame with the callbacks queued so far
HeaderBeginFrame ==
  /\ UNCHANGED notHeader
  /\ hdRunning = <<>>
  /\ hdQueue # <<>>
  /\ hdRunning' = hdQueue
  /\ hdQueue' = <<>>
  /\ hdLast' = "frame"
  /\ UNCHANGED <<hdHeight, hdPreview, hdElements, hdCache, hdCssVars, hdObserver,
                 hdStarted, hdDestroyed, hdEvents, hdAtTeardown>>

\* the host runs the next callback of the frame: resizeObserverHandler
\* (recalculate), the read of an update, or its write
HeaderRunCallback ==
  /\ UNCHANGED notHeader
  /\ hdRunning # <<>>
  /\ hdRunning' = Tail(hdRunning)
  /\ LET cb == Head(hdRunning) IN
       CASE cb.kind = "resized" ->
              /\ hdQueue' = calculate(hdElements, hdQueue)
              /\ UNCHANGED <<hdCssVars, hdCache>>
         [] cb.kind = "read" ->
              /\ hdQueue' = Append(hdQueue,
                              [kind |-> "write",
                               data |-> headerRead(hdElements, hdHeight, hdPreview)])
              /\ UNCHANGED <<hdCssVars, hdCache>>
         [] cb.kind = "write" ->
              LET after == headerWrite([cssVars |-> hdCssVars, cache |-> hdCache],
                                       cb.data, hdElements)
              IN /\ hdCssVars' = after.cssVars
                 /\ hdCache' = after.cache
                 /\ UNCHANGED hdQueue
  /\ hdLast' = Head(hdRunning).kind
  /\ UNCHANGED <<hdHeight, hdPreview, hdElements, hdObserver, hdStarted, hdDestroyed,
                 hdEvents, hdAtTeardown>>

\* headerComponent.destroy: eventManager.destroy(), dom.cleanup()
HeaderDestroy ==
  /\ UNCHANGED notHeader
  /\ hdStarted
  /\ ~hdDestroyed
  /\ hdRunning = <<>>
  /\ hdDestroyed' = TRUE
  /\ hdObserver' = FALSE
  /\ hdElements' = {}
  /\ hdCache' = [headerHeight |-> Undefined, previewHeight |-> Undefined]
  /\ hdAtTeardown' = hdCssVars
  /\ hdLast' = "destroy"
  /\ UNCHANGED <<hdHeight, hdPreview, hdCssVars, hdQueue, hdRunning, hdStarted,
                 hdEvents>>

NextHeader ==
  \/ HeaderInit
  \/ \E h \in HeaderHeights, widthChanged \in BOOLEAN : HeaderResize(h, widthChanged)
  \/ HeaderBeginFrame
  \/ HeaderRunCallback
  \/ HeaderDestroy

\* ------------------------------------------------------------------------
\* Prev/next buttons of one carousel with both buttons: the carousel module
\* (carousel.js 83-93, 238-255) and the images module (wdButtonsRenderer
\* and ImagesEvents of the image gallery carousel)
\* ------------------------------------------------------------------------
CarouselModules == {"carousel", "images"}
\* the events an engine emits that the specification names
ButtonEvents == {"select", "init", "reInit", "settle"}

\* the events updateAll is subscribed to
subscribed(module) ==
  IF module = "images" THEN {"select", "init", "reInit", "settle"}
  ELSE {"select", "init", "reInit"}

\* updateAll(): the images module calls buttonsRenderer.updateButtons(),
\* which hands a read to the scheduler; the buttons renderer of the carousel
\* module has no update function and its updateAll updates the dots only
updateAllButtons(module, queue) ==
  IF module = "images" THEN Append(queue, [kind |-> "read", data |-> <<>>])
  ELSE queue

\* toggleButton(btn, canScroll): the disabled class and attribute
toggleButton(canScroll) == ~canScroll

InitButtons ==
  /\ btModule \in CarouselModules
  /\ btMounted = FALSE
  /\ btCan = [prev |-> TRUE, next |-> TRUE]
  /\ btDisabled \in [{"prev", "next"} -> BOOLEAN]
  /\ btQueue = <<>>
  /\ btRunning = <<>>
  /\ btEvents = 0
  /\ btLast = [kind |-> "none", data |-> <<>>]

\* initCarousel: the engine is constructed, events.init() subscribes
ButtonsMount ==
  /\ UNCHANGED notButtons
  /\ ~btMounted
  /\ btMounted' = TRUE
  /\ btLast' = [kind |-> "mount", data |-> <<>>]
  /\ UNCHANGED <<btModule, btCan, btDisabled, btQueue, btRunning, btEvents>>

\* the engine emits an event, with its canScrollPrev() and canScrollNext()
\* as they are afterwards
ButtonsEngineEmit(event, can) ==
  /\ UNCHANGED notButtons
  /\ btMounted
  /\ btRunning = <<>>
  /\ btEvents < MaxButtonEvents
  /\ btEvents' = btEvents + 1
  /\ btCan' = can
  /\ btQueue' = IF event \in subscribed(btModule)
                THEN updateAllButtons(btModule, btQueue)
                ELSE btQueue
  /\ btLast' = [kind |-> event, data |-> <<>>]
  /\ UNCHANGED <<btModule, btMounted, btDisabled, btRunning>>

\* the host begins a frame with the callbacks queued so far
ButtonsBeginFrame ==
  /\ UNCHANGED notButtons
  /\ btRunning = <<>>
  /\ btQueue # <<>>
  /\ btRunning' = btQueue
  /\ btQueue' = <<>>
  /\ btLast' = [kind |-> "frame", data |-> <<>>]
  /\ UNCHANGED <<btModule, btMounted, btCan, btDisabled, btEvents>>

\* the host runs the next callback of the frame: the read of updateButtons
\* captures canScrollPrev() and canScrollNext(), its write toggles both
ButtonsRunCallback ==
  /\ UNCHANGED notButtons
  /\ btRunning # <<>>
  /\ btRunning' = Tail(btRunning)
  /\ LET cb == Head(btRunning) IN
       IF cb.kind = "read"
         THEN /\ btQueue' = Append(btQueue, [kind |-> "write", data |-> btCan])
              /\ btLast' = [kind |-> "read", data |-> btCan]
              /\ UNCHANGED btDisabled
         ELSE /\ btDisabled' = [prev |-> toggleButton(cb.data.prev),
                                next |-> toggleButton(cb.data.next)]
              /\ btLast' = cb
              /\ UNCHANGED btQueue
  /\ UNCHANGED <<btModule, btMounted, btCan, btEvents>>

NextButtons ==
  \/ ButtonsMount
  \/ \E event \in ButtonEvents, can \in [{"prev", "next"} -> BOOLEAN] :
       ButtonsEngineEmit(event, can)
  \/ ButtonsBeginFrame
  \/ ButtonsRunCallback

\* ------------------------------------------------------------------------
\* The write callbacks of frameSequence, applied again with one snapshot
\* ------------------------------------------------------------------------
\* the widgets whose update goes through frameSequence
WrittenWidgets == {"dots", "scroll", "height", "header", "focal"}

\* the dots that carry the class and the attribute, and what a read of
\* updateDots captures
DotStates == [class : SUBSET (0..2), current : SUBSET (0..2)]
DotSnapshots == [index : 0..2, dots : DotCounts \cup {MaxSlidesDesktop - 1}]

\* TopBarDOM's cache: filled, or emptied by cleanup()
BarCaches ==
  [barHeight : {0} \cup BarHeights, lastScroll : ScrollPositions] \cup {<<>>}
ScrollStates == [scrolled : BOOLEAN, cache : BarCaches]
ScrollSnapshots ==
  {scrollRead(c, y, isScrolled, header) :
     c \in BarCaches, y \in ScrollPositions, isScrolled \in BOOLEAN, header \in Headers}
HeightStates ==
  [cache : BarCaches, cssVar : {Undefined} \cup {<<h>> : h \in BarHeights}]
HeightSnapshots == {heightRead(m) : m \in BarMarkups}

\* the custom properties and HeaderDOM's cache; a snapshot of the header
\* goes with the elements HeaderDOM holds when the write runs
HeaderStates ==
  [cssVars : [headerHeight : {Undefined, <<60>>}, previewHeight : {Undefined, <<40>>}],
   cache : [headerHeight : {Undefined, <<0>>, <<90>>},
            previewHeight : {Undefined, <<0>>}]]
HeaderSnapshots ==
  {[data |-> headerRead(atRead, h, p), elements |-> atWrite] :
     atRead \in {{}, {"doc", "header"}, {"doc", "header", "preview"}},
     atWrite \in {{}, {"doc", "header"}, {"doc", "header", "preview"}},
     h \in HeaderHeights, p \in PreviewHeights}

\* an image before any write and after one, and the positions a read of
\* applyFocalPoint captures
FocalStates ==
  FocalImages \cup
    {[image EXCEPT !.position = defaultPosition, !.opacity = TRUE, !.processed = TRUE] :
       image \in FocalImages}
FocalSnapshots ==
  {calculatePosition(<<>>, image.focalX, image.focalY).position : image \in FocalImages}

InitWrites ==
  /\ wrWidget \in WrittenWidgets
  /\ wrBefore \in CASE wrWidget = "dots" -> DotStates
                    [] wrWidget = "scroll" -> ScrollStates
                    [] wrWidget = "height" -> HeightStates
                    [] wrWidget = "header" -> HeaderStates
                    [] wrWidget = "focal" -> FocalStates
  /\ wrData \in CASE wrWidget = "dots" -> DotSnapshots
                  [] wrWidget = "scroll" -> ScrollSnapshots
                  [] wrWidget = "height" -> HeightSnapshots
                  [] wrWidget = "header" -> HeaderSnapshots
                  [] wrWidget = "focal" -> FocalSnapshots
  /\ wrState = wrBefore
  /\ wrCount = 0

\* a frame runs the write of updateDots with the snapshot
WriteDots ==
  /\ UNCHANGED notWrites
  /\ wrWidget = "dots"
  /\ wrCount < MaxWrites
  /\ wrCount' = wrCount + 1
  /\ wrState' = updateDotsWrite(wrState, wrData)
  /\ UNCHANGED <<wrWidget, wrBefore, wrData>>

\* a frame runs the write of handleScroll with the snapshot
WriteScroll ==
  /\ UNCHANGED notWrites
  /\ wrWidget = "scroll"
  /\ wrCount < MaxWrites
  /\ wrCount' = wrCount + 1
  /\ wrState' = scrollWrite(wrState, wrData)
  /\ UNCHANGED <<wrWidget, wrBefore, wrData>>

\* a frame runs the write of TopBarHeight.calculate with the snapshot
WriteHeight ==
  /\ UNCHANGED notWrites
  /\ wrWidget = "height"
  /\ wrCount < MaxWrites
  /\ wrCount' = wrCount + 1
  /\ wrState' = heightWrite(wrState, wrData)
  /\ UNCHANGED <<wrWidget, wrBefore, wrData>>

\* a frame runs the write of setHeaderHeight.calculate with the snapshot
WriteHeader ==
  /\ UNCHANGED notWrites
  /\ wrWidget = "header"
  /\ wrCount < MaxWrites
  /\ wrCount' = wrCount + 1
  /\ wrState' = headerWrite(wrState, wrData.data, wrData.elements)
  /\ UNCHANGED <<wrWidget, wrBefore, wrData>>

\* a frame runs the write of applyFocalPoint with the snapshot
WriteFocal ==
  /\ UNCHANGED notWrites
  /\ wrWidget = "focal"
  /\ wrCount < MaxWrites
  /\ wrCount' = wrCount + 1
  /\ wrState' = focalWrite(wrState, wrData)
  /\ UNCHANGED <<wrWidget, wrBefore, wrData>>

NextWrites ==
  \/ WriteDots
  \/ WriteScroll
  \/ WriteHeight
  \/ WriteHeader
  \/ WriteFocal

\* ------------------------------------------------------------------------
\* Specifications
\* ------------------------------------------------------------------------
\* the subsystems a specification leaves out rest in these states
IdleSched ==
  /\ rafQueue = <<>>
  /\ frameCallbacks = <<>>
  /\ inFrame = FALSE
  /\ frameNo = 0
  /\ clock = 0
  /\ calls = <<>>
IdleRegistry ==
  /\ registries = <<>>
  /\ themeCleanup = NoHook
  /\ windowCleanup = <<>>
  /\ throws = {}
  /\ regHistory = <<>>
  /\ hookRegs = <<>>
  /\ registerCalls = 0
  /\ lastOp = NoOp

IdleCarousel ==
  /\ markup = Null
  /\ viewportDesktop = FALSE
  /\ pointerInside = FALSE
  /\ started = FALSE
  /\ mediaQuery = Null
  /\ mqListener = FALSE
  /\ debounceTimer = FALSE
  /\ initialized = FALSE
  /\ embla = 0
  /\ selected = 0
  /\ autoplay = NoAutoplay
  /\ isHovering = FALSE
  /\ visibilityObserver = Null
  /\ eventListeners = <<>>
  /\ domListeners = {}
  /\ attached = 0
  /\ removed = 0
  /\ mounts = 0
  /\ mountLog = {}
  /\ permStopped = FALSE
  /\ host = NoHost
  /\ lastEvent = "none"

IdleObserver ==
  /\ ioCallback = ""
  /\ ioConfig = <<>>
  /\ ioObserver = 0
  /\ ioWatchers = <<>>
  /\ ioLast = <<>>

IdleResize ==
  /\ roConfig = <<>>
  /\ innerWidth = 0
  /\ lastWidth = 0
  /\ roObserver = FALSE
  /\ roTimeout = NoTimeout
  /\ roFrames = <<>>
  /\ roLog = <<>>
  /\ roDelivered = <<>>
  /\ roWidth0 = 0

IdleImages ==
  /\ images = <<>>
  /\ imgHandle = <<>>
  /\ imgStarted = FALSE
  /\ imgLast = "none"

IdleFocal ==
  /\ focalCache = <<>>
  /\ focalLast = <<>>

IdleBar ==
  /\ barMarkup = <<>>
  /\ scrollY = 0
  /\ docScrolled = FALSE
  /\ barCache = <<>>
  /\ barCssVar = <<>>
  /\ barQueue = <<>>
  /\ barRunning = <<>>
  /\ barListeners = {}
  /\ barStarted = FALSE
  /\ barEvents = 0
  /\ barLast = <<>>
  /\ barDeepest = 0

IdleSearch ==
  /\ srMarkup = <<>>
  /\ srQuery = <<>>
  /\ srValue = ""
  /\ srFilled = FALSE
  /\ srFocused = FALSE
  /\ srElements = FALSE
  /\ srQueue = <<>>
  /\ srRunning = <<>>
  /\ srTimers = 0
  /\ srListening = FALSE
  /\ srStarted = FALSE
  /\ srDestroyed = FALSE
  /\ srUserEvents = 0
  /\ srLocation = ""
  /\ srLast = ""

IdlePage ==
  /\ pgMarkup = <<>>
  /\ pgInited = {}
  /\ pgAttached = {}
  /\ pgInstances = {}
  /\ pgRegistered = <<>>

IdleBreakpoint ==
  /\ bpSlides = 0
  /\ bpDesktop = FALSE
  /\ bpNow = 0
  /\ bpTimeouts = {}
  /\ bpMounted = FALSE
  /\ bpChanges = <<>>
  /\ bpEvaluations = <<>>

IdleFocalImages ==
  /\ fiImage = <<>>
  /\ fiCache = <<>>
  /\ fiObserver = FALSE
  /\ fiObserved = FALSE
  /\ fiQueue = <<>>
  /\ fiRunning = <<>>
  /\ fiStarted = FALSE
  /\ fiLast = ""

IdleDots ==
  /\ dtMarkup = <<>>
  /\ dtMounted = FALSE
  /\ dtSelected = 0
  /\ dtClass = {}
  /\ dtCurrent = {}
  /\ dtQueue = <<>>
  /\ dtRunning = <<>>
  /\ dtEvents = 0
  /\ dtLast = <<>>
  /\ dtPending = 0

IdleHeader ==
  /\ hdHeight = 0
  /\ hdPreview = 0
  /\ hdElements = {}
  /\ hdCache = <<>>
  /\ hdCssVars = <<>>
  /\ hdObserver = FALSE
  /\ hdQueue = <<>>
  /\ hdRunning = <<>>
  /\ hdStarted = FALSE
  /\ hdDestroyed = FALSE
  /\ hdEvents = 0
  /\ hdAtTeardown = <<>>
  /\ hdLast = ""

IdleButtons ==
  /\ btModule = ""
  /\ btMounted = FALSE
  /\ btCan = <<>>
  /\ btDisabled = <<>>
  /\ btQueue = <<>>
  /\ btRunning = <<>>
  /\ btEvents = 0
  /\ btLast = <<>>

IdleWrites ==
  /\ wrWidget = ""
  /\ wrBefore = <<>>
  /\ wrData = <<>>
  /\ wrState = <<>>
  /\ wrCount = 0

InitSchedSpec == InitSched /\ IdleRegistry /\ IdleCarousel /\ IdleObserver /\ IdleResize
  /\ IdleImages /\ IdleFocal
  /\ IdleBar
  /\ IdleSearch
  /\ IdlePage
  /\ IdleBreakpoint
  /\ IdleFocalImages
  /\ IdleDots
  /\ IdleHeader
  /\ IdleButtons
  /\ IdleWrites
SpecSched == InitSchedSpec /\ [][NextSched]_vars

InitRegistrySpec == InitRegistry /\ IdleSched /\ IdleCarousel /\ IdleObserver /\ IdleResize
  /\ IdleImages /\ IdleFocal
  /\ IdleBar
  /\ IdleSearch
  /\ IdlePage
  /\ IdleBreakpoint
  /\ IdleFocalImages
  /\ IdleDots
  /\ IdleHeader
  /\ IdleButtons
  /\ IdleWrites
SpecRegistry == InitRegistrySpec /\ [][NextRegistry]_vars

InitWidgetsSpec == InitWidgets /\ IdleSched /\ IdleCarousel /\ IdleObserver /\ IdleResize
  /\ IdleImages /\ IdleFocal
  /\ IdleBar
  /\ IdleSearch
  /\ IdlePage
  /\ IdleBreakpoint
  /\ IdleFocalImages
  /\ IdleDots
  /\ IdleHeader
  /\ IdleButtons
  /\ IdleWrites

InitCarouselSpec == InitCarousel /\ IdleSched /\ IdleRegistry /\ IdleObserver /\ IdleResize
  /\ IdleImages /\ IdleFocal
  /\ IdleBar
  /\ IdleSearch
  /\ IdlePage
  /\ IdleBreakpoint
  /\ IdleFocalImages
  /\ IdleDots
  /\ IdleHeader
  /\ IdleButtons
  /\ IdleWrites
SpecCarousel == InitCarouselSpec /\ [][NextCarousel]_vars
SpecWidgets == InitWidgetsSpec /\ [][NextWidgets]_vars

InitObserverSpec == InitObserver /\ IdleSched /\ IdleRegistry /\ IdleCarousel /\ IdleResize
  /\ IdleImages /\ IdleFocal
  /\ IdleBar
  /\ IdleSearch
  /\ IdlePage
  /\ IdleBreakpoint
  /\ IdleFocalImages
  /\ IdleDots
  /\ IdleHeader
  /\ IdleButtons
  /\ IdleWrites
SpecObserver == InitObserverSpec /\ [][NextObserver]_vars

InitResizeSpec ==
  InitResize /\ IdleSched /\ IdleRegistry /\ IdleCarousel /\ IdleObserver
  /\ IdleImages /\ IdleFocal
  /\ IdleBar
  /\ IdleSearch
  /\ IdlePage
  /\ IdleBreakpoint
  /\ IdleFocalImages
  /\ IdleDots
  /\ IdleHeader
  /\ IdleButtons
  /\ IdleWrites
SpecResize == InitResizeSpec /\ [][NextResize]_vars

InitImagesSpec ==
  InitImages /\ IdleSched /\ IdleRegistry /\ IdleCarousel /\ IdleObserver
  /\ IdleResize /\ IdleFocal
  /\ IdleBar
  /\ IdleSearch
  /\ IdlePage
  /\ IdleBreakpoint
  /\ IdleFocalImages
  /\ IdleDots
  /\ IdleHeader
  /\ IdleButtons
  /\ IdleWrites
SpecImages == InitImagesSpec /\ [][NextImages]_vars

InitFocalSpec ==
  InitFocal /\ IdleSched /\ IdleRegistry /\ IdleCarousel /\ IdleObserver
  /\ IdleResize /\ IdleImages
  /\ IdleBar
  /\ IdleSearch
  /\ IdlePage
  /\ IdleBreakpoint
  /\ IdleFocalImages
  /\ IdleDots
  /\ IdleHeader
  /\ IdleButtons
  /\ IdleWrites
SpecFocal == InitFocalSpec /\ [][NextFocal]_vars

InitBarSpec ==
  InitBar /\ IdleSched /\ IdleRegistry /\ IdleCarousel /\ IdleObserver /\
  IdleResize /\ IdleImages /\ IdleFocal
  /\ IdleSearch
  /\ IdlePage
  /\ IdleBreakpoint
  /\ IdleFocalImages
  /\ IdleDots
  /\ IdleHeader
  /\ IdleButtons
  /\ IdleWrites
SpecBar == InitBarSpec /\ [][NextBar]_vars

InitSearchSpec ==
  InitSearch /\ IdleSched /\ IdleRegistry /\ IdleCarousel /\ IdleObserver /\
  IdleResize /\ IdleImages /\ IdleFocal /\ IdleBar
  /\ IdlePage
  /\ IdleBreakpoint
  /\ IdleFocalImages
  /\ IdleDots
  /\ IdleHeader
  /\ IdleButtons
  /\ IdleWrites
SpecSearch == InitSearchSpec /\ [][NextSearch]_vars
\* the host paints a frame whenever callbacks wait for one, and runs every
\* callback of a frame it has begun
FairSpecSearch ==
  SpecSearch /\ WF_vars(SearchBeginFrame) /\ WF_vars(SearchRunCallback)

InitPageSpec ==
  InitPage /\ IdleSched /\ IdleRegistry /\ IdleCarousel /\ IdleObserver /\
  IdleResize /\ IdleImages /\ IdleFocal /\ IdleBar /\ IdleSearch
  /\ IdleBreakpoint
  /\ IdleFocalImages
  /\ IdleDots
  /\ IdleHeader
  /\ IdleButtons
  /\ IdleWrites
SpecPage == InitPageSpec /\ [][NextPage]_vars

InitBreakpointSpec ==
  InitBreakpoint /\ IdleSched /\ IdleRegistry /\ IdleCarousel /\ IdleObserver /\
  IdleResize /\ IdleImages /\ IdleFocal /\ IdleBar /\ IdleSearch /\ IdlePage
  /\ IdleFocalImages
  /\ IdleDots
  /\ IdleHeader
  /\ IdleButtons
  /\ IdleWrites
SpecBreakpoint == InitBreakpointSpec /\ [][NextBreakpoint]_vars

InitFocalImagesSpec ==
  InitFocalImages /\ IdleSched /\ IdleRegistry /\ IdleCarousel /\ IdleObserver /\
  IdleResize /\ IdleImages /\ IdleFocal /\ IdleBar /\ IdleSearch /\ IdlePage /\
  IdleBreakpoint
  /\ IdleDots
  /\ IdleHeader
  /\ IdleButtons
  /\ IdleWrites
SpecFocalImages == InitFocalImagesSpec /\ [][NextFocalImages]_vars

InitDotsSpec ==
  InitDots /\ IdleSched /\ IdleRegistry /\ IdleCarousel /\ IdleObserver /\
  IdleResize /\ IdleImages /\ IdleFocal /\ IdleBar /\ IdleSearch /\ IdlePage /\
  IdleBreakpoint /\ IdleFocalImages
  /\ IdleHeader
  /\ IdleButtons
  /\ IdleWrites
SpecDots == InitDotsSpec /\ [][NextDots]_vars

InitHeaderSpec ==
  InitHeader /\ IdleSched /\ IdleRegistry /\ IdleCarousel /\ IdleObserver /\
  IdleResize /\ IdleImages /\ IdleFocal /\ IdleBar /\ IdleSearch /\ IdlePage /\
  IdleBreakpoint /\ IdleFocalImages /\ IdleDots
  /\ IdleButtons
  /\ IdleWrites
SpecHeader == InitHeaderSpec /\ [][NextHeader]_vars

InitButtonsSpec ==
  InitButtons /\ IdleSched /\ IdleRegistry /\ IdleCarousel /\ IdleObserver /\
  IdleResize /\ IdleImages /\ IdleFocal /\ IdleBar /\ IdleSearch /\ IdlePage /\
  IdleBreakpoint /\ IdleFocalImages /\ IdleDots /\ IdleHeader
  /\ IdleWrites
SpecButtons == InitButtonsSpec /\ [][NextButtons]_vars

InitWritesSpec ==
  InitWrites /\ IdleSched /\ IdleRegistry /\ IdleCarousel /\ IdleObserver /\
  IdleResize /\ IdleImages /\ IdleFocal /\ IdleBar /\ IdleSearch /\ IdlePage /\
  IdleBreakpoint /\ IdleFocalImages /\ IdleDots /\ IdleHeader /\ IdleButtons
SpecWrites == InitWritesSpec /\ [][NextWrites]_vars

SameSubmission(i, j) ==
  /\ calls[i].submitted /\ calls[j].submitted
  /\ calls[i].submitFrame = calls[j].submitFrame

\* C2: for the frameSequence calls submitted during the same frame, every
\* read of the set has run before any write of the set runs.
C2_ReadsBeforeWrites ==
  \A i, j \in CallIds :
    (SameSubmission(i, j) /\ calls[j].writeCount > 0) =>
       /\ calls[i].readCount > 0
       /\ calls[i].readAt < calls[j].writeAt

\* two distinct calls submitted between the same two frames have both run
\* their write closure
C2_Witness ==
  \E i, j \in CallIds :
    /\ i # j
    /\ SameSubmission(i, j)
    /\ calls[i].writeCount = 1 /\ calls[j].writeCount = 1

\* ------------------------------------------------------------------------
\* Claims about the cleanup registry
\* ------------------------------------------------------------------------
Reverse(seq) == [i \in 1..Len(seq) |-> seq[Len(seq) + 1 - i]]

\* C3: cleanupAll() invokes the teardown of every entry of the registry
\* exactly once, in the Map's order, also when some of them throw; no
\* exception reaches the caller and the registry is empty afterwards.
C3_CleanupAllInvokesEveryTeardown ==
  lastOp.op = "cleanupAll" =>
    /\ lastOp.invoked = entryFns(lastOp.before)
    /\ ~lastOp.propagated
    /\ registries[lastOp.reg] = <<>>

\* cleanupAll() has run on two entries of which the first throws
C3_Witness ==
  /\ lastOp.op = "cleanupAll"
  /\ Len(lastOp.before) = 2
  /\ lastOp.before[1].fn \in throws
  /\ lastOp.before[2].fn \notin throws
  /\ lastOp.invoked = <<lastOp.before[1].fn, lastOp.before[2].fn>>

\* C4: when the composed window.themeCleanup fires and one teardown throws,
\* every other function composed into the hook still runs and the exception
\* does not reach the host.
C4_HookIsolatesThrowingTeardown ==
  lastOp.op = "themeCleanup" =>
    /\ ~lastOp.propagated
    /\ \A i \in DOMAIN lastOp.before : lastOp.before[i] \in Range(lastOp.invoked)

\* C5 as stated: after register(n, f) and register(n, g) on one registry, a
\* following cleanupAll() or cleanup(n) invokes both f and g.
C5_SecondRegisterComposes ==
  \A n \in RegNames :
    ( /\ lastOp.op \in {"cleanupAll", "cleanup"}
      /\ lastOp.op = "cleanup" => lastOp.name = n
      /\ Len(lastOp.history[n]) >= 2 )
    => Range(lastOp.history[n]) \subseteq Range(lastOp.invoked)

\* the last function registered under each name, in the order of the entries
latestFns(entries, history) ==
  [i \in DOMAIN entries |-> history[entries[i].name][Len(history[entries[i].name])]]

\* C5 as amended: a registry holds at most one entry per name, and the entry
\* holds the function registered last under that name (a second register
\* replaces the first); cleanupAll() invokes exactly these latest functions,
\* once per entry, and cleanup(n) exactly the latest function of n.
C5_SecondRegisterReplaces ==
  /\ \A r \in DOMAIN registries :
       LET entries == registries[r] IN
       /\ \A i, j \in DOMAIN entries : entries[i].name = entries[j].name => i = j
       /\ \A n \in RegNames : hasEntry(entries, n) <=> regHistory[r][n] # <<>>
       /\ entryFns(entries) = latestFns(entries, regHistory[r])
  /\ lastOp.op = "cleanupAll" =>
       lastOp.invoked = latestFns(lastOp.before, lastOp.history)
  /\ (lastOp.op = "cleanup" /\ lastOp.history[lastOp.name] # <<>>) =>
       lastOp.invoked =
         <<lastOp.history[lastOp.name][Len(lastOp.history[lastOp.name])]>>

\* cleanupAll() has run after f and then g were registered under the name A:
\* g alone was invoked
C5_Witness ==
  /\ lastOp.op = "cleanupAll"
  /\ lastOp.history["A"] = <<"f", "g">>
  /\ lastOp.invoked = <<"g">>

\* C6: each register() made while window.themeCleanup exists puts its
\* teardown in front of the prior hook, so one firing of the hook runs every
\* teardown registered since, each exactly once, in reverse order of
\* registration, and then the original hook.
C6_HookRunsNewFirstThenPrior ==
  lastOp.op = "themeCleanup" =>
    lastOp.invoked = Reverse(hookRegs) \o <<HostHook>>

\* every name some registry lists
registeredNames == UNION {entryNames(registries[r]) : r \in DOMAIN registries}

\* C7: once every widget module has initialised, one and the same registry
\* lists the teardown of every initialised widget (so that one cleanupAll()
\* on it drains them all).
C7_OneSharedRegistry ==
  DOMAIN registries = Widgets =>
    \E r \in DOMAIN registries : registeredNames \subseteq entryNames(registries[r])

\* ------------------------------------------------------------------------
\* Claims about the carousel
\* ------------------------------------------------------------------------
\* C8: no engine is ever constructed for a carousel of at most
\* maxSlidesDesktop slides while the viewport is desktop-wide; and an
\* evaluation of the mount decision made below the breakpoint (at init or
\* when the debounced handler runs) leaves the carousel mounted, whatever its
\* slide count.
C8_NoSmallCarouselMountsOnDesktop ==
  /\ markup.slides <= MaxSlidesDesktop => TRUE \notin mountLog
  /\ (lastEvent \in {"init", "debounce"} /\ ~viewportDesktop) => initialized

\* C9: whenever the carousel is not mounted, no listener is left on the
\* carousel, its buttons or its dots, and as many listeners have been removed
\* as were attached since the instance was created; while it is mounted, every
\* listener on these elements belongs to the current mount.
C9_NoListenerLeak ==
  /\ ~initialized => (domListeners = {} /\ removed = attached)
  /\ \A l \in domListeners : l.handler[2] = embla

\* the second unmount by a breakpoint crossing, after listeners were attached
\* to the carousel, the buttons and the dots
C9_Witness ==
  /\ ~initialized
  /\ lastEvent = "debounce"
  /\ mounts >= 2
  /\ removed = attached
  /\ removed >= 2 * 8

intervalRunning == autoplay # NoAutoplay /\ autoplay.interval

\* C10: once autoplayStopPermanently() has run for a carousel, no mouseenter,
\* mouseleave or intersection event on that carousel starts the interval
\* (stated for an instance whose teardown closure has not run).
C10_NoRestartAfterPermanentStop ==
  [][(permStopped /\ mediaQuery' # Null
        /\ lastEvent' \in {"mouseenter", "mouseleave", "intersection"})
       => ~(~intervalRunning /\ intervalRunning')]_vars

\* C11: for an instance whose teardown closure has not run, once an
\* interaction outside the controls has stopped autoplay permanently the
\* 'active' flag is never true again, re-mounts by breakpoint changes
\* included, and no interval tick follows.
C11_ActiveOneWay ==
  (permStopped /\ mediaQuery # Null) =>
     /\ ~(autoplay # NoAutoplay /\ autoplay.active)
     /\ lastEvent # "tick"

\* the navigation controls a click or touch can land on
Controls == Targets \ {"outside"}
ControlInteraction(t) == Click(t) \/ TouchStart(t)

C13_PauseAndResume ==
  [][(autoplay # NoAutoplay /\ autoplay.active) =>
       /\ (MouseEnter /\ markup.pause) =>
             autoplay' = [active |-> TRUE, interval |-> FALSE]
       /\ Intersection(FALSE) =>
             autoplay' = [active |-> TRUE, interval |-> FALSE]
       /\ (MouseLeave /\ markup.pause) =>
             autoplay' = [active |-> TRUE, interval |-> TRUE]
       /\ Intersection(TRUE) =>
             autoplay' = [active |-> TRUE, interval |-> TRUE]]_vars

\* the pointer has entered a carousel whose interval was running: the
\* interval is cleared, 'active' still true
C13_Witness ==
  /\ lastEvent = "mouseenter"
  /\ markup.pause
  /\ isHovering
  /\ autoplay # NoAutoplay
  /\ autoplay.active
  /\ ~autoplay.interval
  /\ selected > 0

\* the carousel has been mounted and is unmounted now
Unmounted == ~initialized /\ mounts > 0

\* C14: after destroyCarousel() no interval runs, the watcher watches
\* nothing, every DOM listener attached by a mount is removed, every engine
\* constructed has been destroyed exactly once, removeEventListener was never
\* called on an engine and the per-mount references are null; the next mount
\* starts from a new engine, a new autoplay, no hover flag and the listeners
\* of that mount only.
C14_UnmountReleasesEverything ==
  [][/\ Unmounted' =>
          /\ autoplay' = NoAutoplay
          /\ host'.leakedIntervals = 0
          /\ visibilityObserver' = Null
          /\ host'.watched = {}
          /\ domListeners' = {}
          /\ removed' = attached'
          /\ host'.emblaDestroy = mounts'
          /\ host'.emblaRemoveListener = 0
          /\ embla' = 0
          /\ eventListeners' = <<>>
          /\ isHovering' = FALSE
     /\ (Unmounted /\ initialized') =>
          /\ mounts' = mounts + 1
          /\ embla' = mounts'
          /\ selected' = 0
          /\ isHovering' = FALSE
          /\ autoplay' = IF parseTimer(markup.timer) > 0
                         THEN [active |-> TRUE, interval |-> TRUE]
                         ELSE NoAutoplay
          /\ domListeners' = domSubscriptions(subscriptions(markup, mounts'))
          /\ host'.watched = IF parseTimer(markup.timer) > 0 THEN {CarouselEl} ELSE {}
          /\ host'.emblaDestroy = mounts]_vars

\* a carousel with autoplay, pause-on-hover, buttons and dots was mounted with
\* its interval running and has been unmounted by the debounced handler
C14_Witness ==
  /\ Unmounted
  /\ lastEvent = "debounce"
  /\ parseTimer(markup.timer) > 0
  /\ markup.pause
  /\ host.emblaDestroy = 1
  /\ removed = 8

\* ------------------------------------------------------------------------
\* Claims about the visibility observer
\* ------------------------------------------------------------------------
\* C15: a handle holds no watcher before the first init() or observe(); a
\* watcher is constructed only by init() or observe() and never while the
\* handle holds one, so at most one watcher of the handle watches anything;
\* unobserve(e) takes e alone out of the watched set of the held watcher and
\* does nothing on a handle without one.
C15_LazySingleWatcher ==
  [][/\ (ioWatchers = <<>> => ioObserver = 0)
     /\ (Len(ioWatchers') # Len(ioWatchers) =>
           /\ ioLast'.op \in {"init", "observe"}
           /\ ioObserver = 0
           /\ Len(ioWatchers') = Len(ioWatchers) + 1)
     /\ \A w \in DOMAIN ioWatchers' :
           w # ioObserver' => ioWatchers'[w].watched = {}
     /\ ioLast'.op = "unobserve" =>
           /\ ioObserver' = ioObserver
           /\ Len(ioWatchers') = Len(ioWatchers)
           /\ \A w \in DOMAIN ioWatchers :
                ioWatchers'[w] =
                  IF w = ioObserver
                  THEN [ioWatchers[w] EXCEPT !.watched = @ \ {ioLast'.element}]
                  ELSE ioWatchers[w]]_vars

\* unobserve(e) has run on a handle whose one watcher goes on watching the
\* other element
C15_Witness ==
  /\ ioLast.op = "unobserve"
  /\ ioObserver = 1
  /\ Len(ioWatchers) = 1
  /\ ioWatchers[1].watched = Elements \ {ioLast.element}

\* C16: destroy() leaves the handle without a watcher and every watcher it
\* constructed watching nothing, so that callbacks are delivered only by the
\* watcher the handle holds; observe(e) on a handle without a watcher
\* constructs a new watcher with the handle's callback and config that
\* watches exactly e.
C16_DestroyThenObserveReinitializes ==
  [][/\ ioLast'.op = "destroy" =>
           /\ ioObserver' = 0
           /\ \A w \in DOMAIN ioWatchers' : ioWatchers'[w].watched = {}
     /\ ioLast'.op = "callback" =>
           /\ ioObserver # 0
           /\ ioLast'.watcher = ioObserver
     /\ (ioLast'.op = "observe" /\ ioObserver = 0) =>
           /\ ioObserver' = Len(ioWatchers) + 1
           /\ ioWatchers' =
                Append(ioWatchers,
                       [callback |-> ioCallback, config |-> ioConfig,
                        watched |-> {ioLast'.element}])]_vars

\* a handle constructed with a threshold has been destroyed
\* and observes one element with its second watcher
C16_Witness ==
  /\ ioLast.op = "observe"
  /\ ioObserver = 2
  /\ ioWatchers[1].config.threshold = 10
  /\ ioWatchers[2].config = ioWatchers[1].config
  /\ ioWatchers[1].watched = {}
  /\ ioWatchers[2].watched = {ioLast.element}

\* ------------------------------------------------------------------------
\* Claims about the resize observer
\* ------------------------------------------------------------------------
\* the width of notification i differs from the width recorded at the
\* previous width-changing notification, at first the width at construction
widthChanged(i) == roLog[i] # (IF i = 1 THEN roWidth0 ELSE roLog[i - 1])
\* nothing is waiting for the debounce timeout or for an animation frame
resizeQuiescent == roTimeout = NoTimeout /\ roFrames = <<>>

\* C17 as stated: in width-only mode the consumer callback is never called
\* for a notification whose width is unchanged, every notification whose
\* width changed has reached the callback once nothing is pending any more,
\* and lastWidth is the width of the latest notification.
C17_EveryWidthChangeForwarded ==
  roConfig.width =>
    /\ \A k \in DOMAIN roDelivered : widthChanged(roDelivered[k])
    /\ resizeQuiescent =>
         \A i \in DOMAIN roLog : widthChanged(i) => i \in Range(roDelivered)
    /\ lastWidth = IF roLog = <<>> THEN roWidth0 ELSE roLog[Len(roLog)]

\* C17, amended: in width-only mode the consumer callback is never called
\* for a notification whose width is unchanged and at most once for one whose
\* width changed, in their order; lastWidth is the width of the latest
\* notification; a notification whose width changed is delivered or pending
\* unless, with a debounce, a later one with a changed width took its place,
\* so that once nothing is pending the callback has seen the last of them,
\* and without a debounce all of them.
C17_LastWidthChangeForwarded ==
  roConfig.width =>
    /\ \A k \in DOMAIN roDelivered : widthChanged(roDelivered[k])
    /\ \A k, l \in DOMAIN roDelivered : k < l => roDelivered[k] < roDelivered[l]
    /\ lastWidth = IF roLog = <<>> THEN roWidth0 ELSE roLog[Len(roLog)]
    /\ \A i \in DOMAIN roLog :
         widthChanged(i) =>
           \/ i \in Range(roDelivered) \cup Range(roFrames) \cup {roTimeout}
           \/ /\ roConfig.debounceTime > 0
              /\ \E j \in DOMAIN roLog : j > i /\ widthChanged(j)

\* with a debounce, two notifications changed the width, the first was
\* replaced while its timeout was pending and the second has reached the
\* callback; a third one kept the width and was swallowed
C17_Witness ==
  /\ roConfig.width
  /\ roConfig.debounceTime > 0
  /\ Len(roLog) = 3
  /\ widthChanged(1) /\ widthChanged(2) /\ ~widthChanged(3)
  /\ roDelivered = <<2>>
  /\ resizeQuiescent

\* ------------------------------------------------------------------------
\* Claims about the lazy image loader
\* ------------------------------------------------------------------------
\* the images the watcher of imageObserver watches now
imgWatched ==
  IF imgHandle.observer = 0 THEN {}
  ELSE imgHandle.watchers[imgHandle.observer].watched

\* what C18 says of an image outside the viewport at the scan: it is handed
\* to the observer, loadImage() is not called for it before a callback
\* reports it intersecting, and that callback unobserves it
loadsOnIntersection(i) ==
  /\ images[i].observedEver
  /\ images[i].loadAt # "scan"
  /\ images[i].loadAt = "none" =>
       (images[i].hidden /\ images[i].loadListeners = 0 /\ images[i].transitions = 0)
  /\ images[i].loadAt = "callback" => i \notin imgWatched

\* C18 as stated: after the scan an image that was inside the viewport has
\* made its transition, by the scan's own loadImage() call, and was never
\* handed to the observer; an image outside the viewport loads on
\* intersection.
C18_InViewportLoadedInScan ==
  imgStarted =>
    \A i \in Images :
      IF images[i].inViewport
      THEN /\ images[i].loadAt = "scan"
           /\ ~images[i].observedEver
           /\ ~images[i].hidden
           /\ images[i].transitions >= 1
      ELSE loadsOnIntersection(i)

\* C18, amended: for an image inside the viewport the scan calls loadImage()
\* and never hands it to the observer; it has made its transition if it was
\* complete, and otherwise waits with a 'load' listener for its load event;
\* an image outside the viewport loads on intersection.
C18_InViewportLoadStartedInScan ==
  imgStarted =>
    \A i \in Images :
      IF images[i].inViewport
      THEN /\ images[i].loadAt = "scan"
           /\ ~images[i].observedEver
           /\ IF images[i].hidden
              THEN ~images[i].complete /\ images[i].loadListeners >= 1
              ELSE images[i].transitions >= 1
      ELSE loadsOnIntersection(i)

\* one image was inside the viewport and not complete at the scan and waits
\* for its load event; the other was outside, has been reported intersecting
\* and is loaded and unobserved
C18_Witness ==
  /\ imgLast = "callback"
  /\ \E i, j \in Images :
       /\ images[i].inViewport /\ images[i].hidden /\ images[i].loadListeners = 1
       /\ ~images[j].inViewport /\ images[j].loadAt = "callback"
       /\ ~images[j].hidden /\ j \notin imgWatched

\* C19: no image makes the transition from hidden to loaded more than once,
\* whatever intersection callbacks and load events arrive, and an image that
\* is not hidden does not become hidden.
C19_LoadTransitionOnce ==
  [][\A i \in Images :
       /\ images'[i].transitions <= 1
       /\ ~images[i].hidden => ~images'[i].hidden]_vars

\* ------------------------------------------------------------------------
\* Claims about the focal-point cropper
\* ------------------------------------------------------------------------
\* what C20 says one axis is, in hundredths of a percent, for a coordinate
\* given in hundredths
expectedPercentage(value) ==
  IF value < -100 THEN 0
  ELSE IF value > 100 THEN 10000
  ELSE (value + 100) * 50

\* the number a coordinate's text stands for, in hundredths
coordinateValue(text) == (CHOOSE co \in Coordinates : co.text = text).value

\* C20: whatever was computed or cached before, calculatePosition returns for
\* a coordinate pair (x, y) the position whose axes are (value + 1) * 50
\* percent inside [-1, 1] and 0% or 100% outside, and that is what the cache
\* holds for the pair afterwards.
C20_PositionIsFunctionOfPair ==
  (/\ focalLast.op = "calculatePosition"
   /\ focalLast.focalX # NoAttribute
   /\ focalLast.focalY # NoAttribute) =>
    LET expected == [x |-> expectedPercentage(coordinateValue(focalLast.focalX)),
                     y |-> expectedPercentage(coordinateValue(focalLast.focalY))]
    IN /\ focalLast.position = expected
       /\ focalCache[positionKey(focalLast.focalX, focalLast.focalY)] = expected

\* a pair with one coordinate inside and one outside [-1, 1] was answered
\* from the cache while the cache held another pair as well
C20_Witness ==
  /\ focalLast.op = "calculatePosition"
  /\ focalLast.hit
  /\ focalLast.focalX = <<"0", ".", "2", "5">>
  /\ focalLast.focalY = <<"1", ".", "5">>
  /\ focalLast.position = [x |-> 6250, y |-> 10000]
  /\ Cardinality(DOMAIN focalCache) = 2

\* ------------------------------------------------------------------------
\* Claims about the sticky top bar
\* ------------------------------------------------------------------------
\* a scroll update of the sticky bar was just processed: its write ran with
\* the position and the threshold its read had captured
processedScrollUpdate ==
  /\ barLast.kind = "scrollWrite"
  /\ barLast.data.isSticky
  /\ barLast.data.height # Undefined

\* C21: after any processed scroll update of the sticky bar whose scroll
\* position is at or below the threshold max(200, cached bar height), the
\* scroll modifier is absent from the document element, whatever the
\* direction and whatever the previous state
C21_BelowThresholdShown ==
  (/\ processedScrollUpdate
   /\ barLast.data.current <= Max(minHeight, barLast.data.height[1]))
    => ~docScrolled

\* the scenario of the specification: bar height 80, the modifier was added
\* at 250 and the update at 180 has removed it
C21_Witness ==
  /\ processedScrollUpdate
  /\ barLast.data.height = <<80>>
  /\ barLast.data.current = 180
  /\ barLast.data.lastScroll = <<250>>
  /\ barLast.data.isScrolled
  /\ ~docScrolled

\* ------------------------------------------------------------------------
\* Claims about the search overlay
\* ------------------------------------------------------------------------
\* the widget has initialized with its form and input present and a
\* non-empty parameter q in the page URL
queryText == IF srQuery = NoQuery THEN "" ELSE srQuery[1]
initializedWithQuery ==
  /\ srStarted
  /\ searchDomInit(srMarkup)
  /\ queryText # ""

\* C22: if the page URL carries a non-empty query parameter q when the
\* search widget initializes (form and input present), then without any
\* input event the input's value eventually equals q and the input's
\* parent eventually carries the 'filled' class; nothing is promised once
\* the user has acted or the widget has been torn down
C22_AutoFillShowsFilled ==
  initializedWithQuery
    ~> ((srValue = queryText /\ srFilled) \/ srUserEvents > 0 \/ srDestroyed)

\* the input shows the query and its parent is 'filled' with no user event
C22_Witness ==
  /\ initializedWithQuery
  /\ srQuery = <<"tent">>
  /\ srMarkup.value = ""
  /\ srValue = "tent"
  /\ srFilled
  /\ srUserEvents = 0
  /\ ~srDestroyed

\* ------------------------------------------------------------------------
\* Claims about widget initialization against the page
\* ------------------------------------------------------------------------
\* the element a widget requires is in the page
requiredPresent(w) ==
  CASE w = "carousel" -> pgMarkup.carousels # <<>>
    [] w = "topBar" -> pgMarkup.topBar
    [] w = "header" -> pgMarkup.header
    [] w = "imageLoading" -> pgMarkup.wrappers
    [] w = "focalImage" -> pgMarkup.focalImages
    [] w = "search" -> pgMarkup.form /\ pgMarkup.input

\* what widget w owns of the attachments; the menu's belong to header.js
ownedBy(w) == {a \in pgAttached : a[1] = w \/ (w = "header" /\ a[1] = "menu")}

\* C23: when a widget's required element is absent at initialization (no
\* .carousel__container inside a carousel, no .top-bar, no .header, no
\* .image-wrapper, no search form or input), its initialization attaches no
\* listener, observer, media-query watcher or timer for it and nothing is
\* returned to or stored in the cleanup registry for it; the other widgets
\* and the other carousels of the page still initialize
C23_MissingDomAborts ==
  /\ \A w \in pgInited :
       IF requiredPresent(w)
         THEN pgRegistered[w] = registeredBy(w)
         ELSE ownedBy(w) = {} /\ pgRegistered[w] = <<>>
  /\ "carousel" \in pgInited =>
       \A i \in DOMAIN pgMarkup.carousels :
         IF pgMarkup.carousels[i]
           THEN i \in pgInstances /\ <<"carousel", i, "mediaQuery">> \in pgAttached
           ELSE /\ i \notin pgInstances
                /\ ~\E a \in pgAttached : a[1] = "carousel" /\ a[2] = i

\* every module has run on a page without .top-bar and without search input,
\* whose first carousel has no container and whose second has one
C23_Witness ==
  /\ pgInited = Widgets
  /\ pgMarkup.carousels = <<FALSE, TRUE>>
  /\ ~pgMarkup.topBar /\ pgMarkup.header /\ pgMarkup.form /\ ~pgMarkup.input
  /\ pgInstances = {2}
  /\ pgRegistered["topBar"] = <<>> /\ pgRegistered["search"] = <<>>
  /\ pgRegistered["header"] = <<"HeaderAPI", "MenuAPI">>

\* ------------------------------------------------------------------------
\* Claims about the carousel after its teardown, and about what it owns
\* ------------------------------------------------------------------------
\* the teardown closure of the instance has run
tornDown == started /\ mediaQuery = Null

\* C24: after the teardown closure of a carousel instance has run, the
\* instance stays unmounted for good: no later event, in particular a
\* debounced breakpoint evaluation still pending at teardown, constructs an
\* engine, attaches listeners, creates a visibility watcher or starts an
\* autoplay interval for it
C24_TornDownStaysUnmounted ==
  tornDown =>
    /\ ~initialized
    /\ embla = 0
    /\ domListeners = {}
    /\ host.watched = {}
    /\ ~intervalRunning

\* the latest event was a report that the carousel is out of the viewport:
\* a report that it is intersecting leaves an active autoplay running
reportedOutOfViewport ==
  /\ lastEvent = "intersection"
  /\ autoplay # NoAutoplay
  /\ autoplay.active
  /\ ~autoplay.interval

\* C25: in every reachable state of a mounted carousel with autoplay the
\* interval is not running while the pointer hovers over a pause-on-hover
\* carousel, and not running while the latest visibility report says the
\* carousel is out of the viewport: the resume of one pause signal never
\* overrides the other. Stated for the hover flag in every state, and for the
\* event that directly follows an out-of-viewport report.
C25_PausesNotOverridden ==
  [][/\ (initialized' /\ markup.pause /\ isHovering') => ~intervalRunning'
     /\ (reportedOutOfViewport /\ initialized'
           /\ lastEvent' \in {"mouseenter", "mouseleave", "click", "touchstart"})
          => ~intervalRunning']_vars

\* ------------------------------------------------------------------------
\* Claims about the debounced breakpoint watcher
\* ------------------------------------------------------------------------
\* the decision predicate: not desktop, or more than 4 slides
mountDecision(isDesktop) == ~isDesktop \/ bpSlides > 4

\* the viewport has not changed for 250ms and no timeout is left to run
stableViewport ==
  /\ bpChanges # <<>>
  /\ bpNow >= bpChanges[Len(bpChanges)] + 250
  /\ due(bpTimeouts, bpNow) = {}

liveEngines == mounts - host.emblaDestroy
runningIntervals == (IF intervalRunning THEN 1 ELSE 0) + host.leakedIntervals
liveWatchers == Cardinality(host.watched)

\* the state of a mount
perMount ==
  <<initialized, embla, selected, autoplay, isHovering, visibilityObserver,
    eventListeners, domListeners, attached, removed, mounts, mountLog, host>>

\* C27: in every reachable state a carousel instance owns at most one live
\* engine, at most one running autoplay interval and at most one live
\* visibility watcher, and none of them while it is not mounted;
\* initCarousel on a mounted instance and destroyCarousel on an unmounted
\* instance change nothing
C27_AtMostOneOfEach ==
  [][/\ liveEngines' <= 1 /\ runningIntervals' <= 1 /\ liveWatchers' <= 1
     /\ ~initialized' =>
          liveEngines' = 0 /\ runningIntervals' = 0 /\ liveWatchers' = 0
     /\ initialized' => liveEngines' = 1 /\ embla' = mounts'
     /\ (DebounceFire /\ initialized /\ initialized') => UNCHANGED perMount
     /\ ((DebounceFire \/ InstanceDestroy) /\ ~initialized /\ ~initialized')
          => UNCHANGED perMount]_vars

\* the debounced evaluation has called initCarousel on the carousel of five
\* slides, mounted since init, and its first engine, interval and watcher
\* are the only ones
C27_Witness ==
  /\ markup.slides = 5
  /\ lastEvent = "debounce"
  /\ initialized
  /\ mounts = 1 /\ embla = 1
  /\ intervalRunning
  /\ host.watched = {CarouselEl}
  /\ host.emblaDestroy = 0

\* ------------------------------------------------------------------------
\* Claims about focal images
\* ------------------------------------------------------------------------
\* C28: a focal image element is converted (object-position written) at most
\* once: for any sequence of applyFocalPoint calls and intersection
\* callbacks on the same element, including calls that arrive before the
\* scheduled write of an earlier call has set the processed mark, the write
\* is applied to that element no more than one time
C28_ConvertedAtMostOnce == fiImage.writes <= 1

\* ------------------------------------------------------------------------
\* Claims about the life of an observer handle
\* ------------------------------------------------------------------------
\* C29: a handle moves forward only, through uninitialized, active and
\* destroyed: an observe(e) issued on a handle whose last call was destroy()
\* leaves it without a watcher, and no watcher of the handle watches e
C29_DestroyedStaysDestroyed ==
  [][(ioLast.op = "destroy" /\ ioLast'.op = "observe") =>
        /\ ioObserver' = 0
        /\ \A w \in DOMAIN ioWatchers' : ioWatchers'[w].watched = {}]_vars

\* ------------------------------------------------------------------------
\* Claims about the dot indicators
\* ------------------------------------------------------------------------
\* a write of updateDots has just been applied to the dots of the mounted
\* carousel
dotsWritten == dtMounted /\ dtLast.kind = "write"

\* C30 as stated: after every dot-indicator write of a mounted carousel,
\* exactly one dot carries the selected class and aria-current="true", the
\* dot at the selected index the preceding read captured, and every other
\* dot carries neither
C30_ExactlyOneDotCurrent ==
  dotsWritten =>
    /\ Cardinality(dtClass) = 1
    /\ dtClass = {dtLast.index}
    /\ dtCurrent = dtClass

\* C30: after every dot-indicator write of a mounted carousel, the dot at
\* the selected index the preceding read captured, if the carousel has such
\* a dot, carries the selected class and aria-current="true" and every
\* other dot carries neither; this is exactly one dot when the carousel has
\* at least as many dots as slides
C30_DotAtCapturedIndexCurrent ==
  dotsWritten =>
    /\ dtClass = {dtLast.index} \cap dotIndexes(dtMarkup)
    /\ dtCurrent = dtClass
    /\ dtMarkup.dots >= dtMarkup.slides => Cardinality(dtClass) = 1

\* the template marked the first dot, the engine moved to its third snap
\* and the write made the third dot the only current one
C30_Witness ==
  /\ dotsWritten
  /\ dtMarkup.marked
  /\ dtLast.index = 2
  /\ dtSelected = 2
  /\ dtClass = {2}
  /\ dtCurrent = {2}

\* ------------------------------------------------------------------------
\* Claims about hiding and showing the sticky bar
\* ------------------------------------------------------------------------
\* C31: the scroll modifier is added only by the write of a scroll update
\* whose position is above the threshold max(200, bar height) and greater
\* than the scroll position recorded before it, which is the position the
\* cache held when the write ran: no update at or below the threshold and
\* no upward update adds it
C31_AddedOnlyPastThresholdGoingDown ==
  [][(~docScrolled /\ docScrolled') =>
        /\ barLast'.kind = "scrollWrite"
        /\ barLast'.data.height # Undefined
        /\ barLast'.data.lastScroll # Undefined
        /\ barLast'.data.current > Max(minHeight, barLast'.data.height[1])
        /\ barLast'.data.current > barLast'.data.lastScroll[1]
        /\ "lastScroll" \in DOMAIN barCache =>
              barLast'.data.lastScroll = <<barCache.lastScroll>>]_vars

\* the bar of height 80 was shown at 180 and the update at 250 has hidden it
C31_Witness ==
  /\ processedScrollUpdate
  /\ docScrolled
  /\ ~barLast.data.isScrolled
  /\ barLast.data.height = <<80>>
  /\ barLast.data.lastScroll = <<180>>
  /\ barLast.data.current = 250

\* C32: while the bar is hidden, a scroll update that finds the position
\* still past the threshold and more than the hysteresis band (20px) above
\* the deepest position recorded since the bar was hidden removes the
\* modifier
C32_ReappearsBeyondHysteresis ==
  (/\ processedScrollUpdate
   /\ barLast.data.current > Max(minHeight, barLast.data.height[1])
   /\ docScrolled)
    => barLast.data.current >= barDeepest - hysteresis

\* ------------------------------------------------------------------------
\* Claims about pending work at teardown
\* ------------------------------------------------------------------------
\* C34: while a resize observer handle holds no observer, after destroy(),
\* the consumer callback is not invoked, even when a debounced or
\* frame-deferred notification was pending at the moment of destroy()
C34_NoCallbackAfterDestroy ==
  [][~roObserver => roDelivered' = roDelivered]_vars

\* C33: a header-height update whose read or write runs after the header
\* widget's teardown does not change --header-height on the document
\* element: after teardown the property keeps the value it had when
\* destroy() ran
C33_HeaderHeightKeptAfterTeardown ==
  hdDestroyed => hdCssVars.headerHeight = hdAtTeardown.headerHeight

\* ------------------------------------------------------------------------
\* Claims about cleanup(name)
\* ------------------------------------------------------------------------
\* C35: cleanup(name) invokes the teardown registered under name exactly
\* once and removes its entry, whether or not the teardown throws; for a
\* name without an entry it invokes nothing and leaves the registry as it
\* was
C35_CleanupRemovesEntry ==
  lastOp.op = "cleanup" =>
    /\ ~hasEntry(registries[lastOp.reg], lastOp.name)
    /\ IF hasEntry(lastOp.before, lastOp.name)
       THEN lastOp.invoked = <<entryFn(lastOp.before, lastOp.name)>>
       ELSE /\ lastOp.invoked = <<>>
            /\ registries[lastOp.reg] = lastOp.before

\* ------------------------------------------------------------------------
\* Claims about the prev/next buttons
\* ------------------------------------------------------------------------
\* C36: on each select, init, reInit and settle event of the engine of a
\* mounted carousel a button update is handed to the scheduler, and after
\* the write of an update the prev button is disabled if and only if
\* canScrollPrev() was false at its read, and the next button if and only
\* if canScrollNext() was false
C36_ButtonsFollowCanScroll ==
  [][/\ btLast'.kind \in ButtonEvents =>
          btQueue' = Append(btQueue, [kind |-> "read", data |-> <<>>])
     /\ btLast'.kind = "write" =>
          /\ btDisabled'.prev = ~btLast'.data.prev
          /\ btDisabled'.next = ~btLast'.data.next]_vars

\* ------------------------------------------------------------------------
\* Claims about the data-timer attribute
\* ------------------------------------------------------------------------
\* the one text among TimerAttrs that is a positive number
positiveTimer == markup.timer = <<"3", "0", "0", "0">>
\* listeners on the carousel element itself: hover and interaction
carouselListeners == {l \in domListeners : l.element = CarouselEl}

\* C37: a carousel whose data-timer is absent, not a number, zero or
\* negative has no autoplay interval, no visibility watcher and no hover or
\* interaction listener in any reachable state; an autoplay interval exists
\* only for a mounted carousel with a positive timer value
C37_AutoplayOnlyWithPositiveTimer ==
  /\ ~positiveTimer =>
       /\ autoplay = NoAutoplay
       /\ visibilityObserver = Null
       /\ liveWatchers = 0
       /\ carouselListeners = {}
  /\ runningIntervals > 0 => (initialized /\ positiveTimer)

\* a carousel with data-timer="-5" and data-pause="true" is mounted
C37_Witness ==
  /\ initialized
  /\ markup.timer = <<"-", "5">>
  /\ markup.pause
  /\ embla > 0
  /\ autoplay = NoAutoplay
  /\ carouselListeners = {}

\* ------------------------------------------------------------------------
\* Claims about scroll updates without a sticky header
\* ------------------------------------------------------------------------
\* the callback that runs next belongs to a scroll update
scrollUpdateStep ==
  /\ barRunning # <<>>
  /\ Head(barRunning).kind \in {"scrollRead", "scrollWrite"}
  /\ barRunning' = Tail(barRunning)

\* C39: while .header__inner is missing or lacks header__inner--sticky,
\* neither the read nor the write of a scroll update changes the scroll
\* modifier of the document element or the cache, and with it the recorded
\* last scroll position, whatever the scroll position is
C39_NoStickyHeaderNoChange ==
  [][(scrollUpdateStep /\ ~classContains(barMarkup.header, "sticky")) =>
        /\ docScrolled' = docScrolled
        /\ barCache' = barCache
        /\ barCssVar' = barCssVar]_vars

\* a scroll update at 250, above the threshold and the recorded position 0,
\* was written with a header that is present but not sticky: the modifier is
\* still absent and the recorded position still 0
C39_Witness ==
  /\ barLast.kind = "scrollWrite"
  /\ barMarkup.header.present
  /\ ~barMarkup.header.sticky
  /\ ~barLast.data.isSticky
  /\ barLast.data.current = 250
  /\ barLast.data.threshold = <<minHeight>>
  /\ barLast.data.lastScroll = <<0>>
  /\ ~docScrolled
  /\ barCache = [barHeight |-> 80, lastScroll |-> 0]

\* ------------------------------------------------------------------------
\* Claims about the dots once every frame has run
\* ------------------------------------------------------------------------
\* the mounted carousel's engine has emitted events and every callback
\* handed to nextFrame since has run
dotsSettled ==
  /\ dtMounted
  /\ dtEvents > 0
  /\ dtQueue = <<>>
  /\ dtRunning = <<>>

\* C40: once every scheduled frame of a mounted carousel has run after the
\* engine's last event, the dots marked current, by class and by
\* aria-current, are exactly the dot at the engine's selected index, however
\* many dot updates were pending at the same time
C40_SettlesOnSelectedIndex ==
  dotsSettled =>
    /\ dtCurrent = {dtSelected} \cap dotIndexes(dtMarkup)
    /\ dtClass = dtCurrent

\* three selects came before any frame ran, so three updates were pending at
\* once; the engine ended on its second snap, and after all frames the
\* second dot is the current one although the template had marked the first
C40_Witness ==
  /\ dotsSettled
  /\ dtPending = 3
  /\ dtMarkup.marked
  /\ dtLast = [kind |-> "write", index |-> 1]
  /\ dtSelected = 1
  /\ dtCurrent = {1}
  /\ dtClass = {1}

\* ------------------------------------------------------------------------
\* Claims about applying a write again
\* ------------------------------------------------------------------------
\* the values one application of the widget's write to the values before
\* gives
writtenOnce ==
  CASE wrWidget = "dots" -> updateDotsWrite(wrBefore, wrData)
    [] wrWidget = "scroll" -> scrollWrite(wrBefore, wrData)
    [] wrWidget = "height" -> heightWrite(wrBefore, wrData)
    [] wrWidget = "header" -> headerWrite(wrBefore, wrData.data, wrData.elements)
    [] wrWidget = "focal" -> focalWrite(wrBefore, wrData)

\* the same DOM and cache values; of an image, its style and attributes
sameValues(a, b) ==
  IF wrWidget = "focal"
    THEN [a EXCEPT !.writes = 0] = [b EXCEPT !.writes = 0]
    ELSE a = b

\* C38: the writes of the dot indicator, of the sticky bar's scroll update,
\* of the bar and header height updates and of the focal-point conversion
\* are idempotent: after two or more applications with the same snapshot the
\* DOM and the cached values are what one application leaves
C38_WritesIdempotent ==
  wrCount >= 1 => sameValues(wrState, writtenOnce)

\* the snapshot taken at 250 with the bar shown and 180 recorded was written
\* twice: the first write hid the bar and recorded 250, so the second ran
\* with a stale snapshot, and the bar is hidden with 250 recorded
C38_Witness ==
  /\ wrWidget = "scroll"
  /\ wrCount = 2
  /\ wrBefore = [scrolled |-> FALSE, cache |-> [barHeight |-> 80, lastScroll |-> 180]]
  /\ wrData.isSticky
  /\ ~wrData.isScrolled
  /\ wrData.current = 250
  /\ wrData.lastScroll = <<180>>
  /\ wrData.threshold = <<minHeight>>
  /\ wrState = [scrolled |-> TRUE, cache |-> [barHeight |-> 80, lastScroll |-> 250]]

====
